---- MODULE Spec2Model ----
(***************************************************************************)
(* Model of the string filter parser of frappe-mcp-server                  *)
(* (src/src/tools/filter_parser.py).                                       *)
(*                                                                         *)
(* Python strings are sequences of one-character strings, so that split,   *)
(* strip, lower and the numeric conversions are computed on characters.    *)
(* Python values are tagged records:                                       *)
(*   None  [t |-> "none"]            str   [t |-> "str",  s |-> chars]     *)
(*   int   [t |-> "int", i |-> n]    bool  [t |-> "bool", b |-> TRUE]      *)
(*   float [t |-> "float", m |-> mantissa, e |-> exponent]  (m * 10^e)     *)
(*   list  [t |-> "list", l |-> <<values>>]                                *)
(*   dict  [t |-> "dict", d |-> <<[k |-> chars, v |-> value]>>], in        *)
(*         insertion order, as Python dicts keep it.                       *)
(***************************************************************************)
EXTENDS Integers, Sequences, FiniteSets, TLC

VARIABLES
    pc,          \* "idle" (no call in progress) or "done" (a call has ended)
    entry,       \* the function that was called
    clauses,     \* the clauses the caller wrote (what filter_str was built from)
    filter_str,  \* the argument of the call: None or a str
    outcome,     \* how the call ended: a returned value or a raised exception
    token,       \* the literal the caller wrote (what value_str was built from)
    value_in,    \* the argument value_str of a call of _convert_value: None or a str
    calls,       \* concurrent callers of parse_filter_string: where each is in its call
    locals,      \* the local variable filters_dict of the calls in progress
    environ,     \* os.environ: FRAPPE_API_KEY, FRAPPE_API_SECRET, FRAPPE_BASE_URL
    process,     \* the server process: not started, serving or exited
    _client_instance,  \* frappe_api._client_instance: None or the FrappeApiClient
    auth,        \* the last direct call of a function of auth.py and its outcome
    tool,        \* the last tool call: its arguments, the requests it sent, its result
    documents,   \* the backend's documents: name -> docstatus and amended_from
    lifecycle,   \* the last call of a lifecycle tool: its arguments, requests, result
    deletion,    \* the last call of delete_document: its arguments, requests, result
    optimizing,   \* the last direct call of _optimize_range_filters: argument and result
    shared_client,  \* the one FrappeApiClient the tools share: its attribute _client
    httpx_clients,  \* the httpx.AsyncClient objects made so far: open, or aclose() called
    coroutines,  \* the requests and close() calls running on the shared client
    amending  \* a call of amend_document in its search for a free amended name

\* the variables of the parser's callers
parserVars == <<pc, entry, clauses, filter_str, outcome, token, value_in>>

\* the variables of the concurrent callers
callerVars == <<calls, locals>>

\* the variables of the server process and its tools
serverVars == <<environ, process, _client_instance, auth, tool>>

\* the variables of the backend and the lifecycle tools
documentVars == <<documents, lifecycle, deletion>>

\* the variable of the direct calls of _optimize_range_filters
optimizeVars == <<optimizing>>

\* the shared FrappeApiClient and the coroutines that use it
clientVars == <<shared_client, httpx_clients, coroutines>>

\* the variable of the amended-name search of amend_document
searchVars == <<amending>>

outsideParser == <<callerVars, serverVars, documentVars, optimizeVars, clientVars, searchVars>>
outsideCallers == <<parserVars, serverVars, documentVars, optimizeVars, clientVars, searchVars>>
outsideServer == <<parserVars, callerVars, documentVars, optimizeVars, clientVars, searchVars>>
outsideLifecycle == <<parserVars, callerVars, optimizeVars, clientVars, searchVars>>
outsideOptimize == <<parserVars, callerVars, serverVars, documentVars, clientVars, searchVars>>

outsideClient == <<parserVars, callerVars, serverVars, documentVars, optimizeVars, searchVars>>
outsideSearch == <<parserVars, callerVars, serverVars, documentVars, optimizeVars, clientVars>>

vars == <<parserVars, callerVars, serverVars, documentVars, optimizeVars, clientVars, searchVars>>

----------------------------------------------------------------------------
(* Python values *)

PyNone == [t |-> "none"]
PyStr(s) == [t |-> "str", s |-> s]
PyInt(n) == [t |-> "int", i |-> n]
PyBool(b) == [t |-> "bool", b |-> b]
PyFloat(m, e) == [t |-> "float", m |-> m, e |-> e]
PyList(l) == [t |-> "list", l |-> l]
PyDict(d) == [t |-> "dict", d |-> d]

IsList(x) == x.t = "list"

\* how a call ends
Return(value) == [kind |-> "return", value |-> value]
Raise(exc, msg) == [kind |-> "raise", exc |-> exc, msg |-> msg]
NoOutcome == [kind |-> "none"]

----------------------------------------------------------------------------
(* str methods *)

Whitespace == {" ", "\t", "\n", "\r"}

Digits == {"0", "1", "2", "3", "4", "5", "6", "7", "8", "9"}

DigitVal(c) ==
    CASE c = "0" -> 0 [] c = "1" -> 1 [] c = "2" -> 2 [] c = "3" -> 3
      [] c = "4" -> 4 [] c = "5" -> 5 [] c = "6" -> 6 [] c = "7" -> 7
      [] c = "8" -> 8 [] c = "9" -> 9

LowerChar(c) ==
    CASE c = "A" -> "a" [] c = "B" -> "b" [] c = "C" -> "c" [] c = "D" -> "d"
      [] c = "E" -> "e" [] c = "F" -> "f" [] c = "G" -> "g" [] c = "H" -> "h"
      [] c = "I" -> "i" [] c = "J" -> "j" [] c = "K" -> "k" [] c = "L" -> "l"
      [] c = "M" -> "m" [] c = "N" -> "n" [] c = "O" -> "o" [] c = "P" -> "p"
      [] c = "Q" -> "q" [] c = "R" -> "r" [] c = "S" -> "s" [] c = "T" -> "t"
      [] c = "U" -> "u" [] c = "V" -> "v" [] c = "W" -> "w" [] c = "X" -> "x"
      [] c = "Y" -> "y" [] c = "Z" -> "z" [] OTHER -> c

\* s.lower()
Lower(s) == [i \in 1..Len(s) |-> LowerChar(s[i])]

\* c in s
Contains(s, c) == \E i \in 1..Len(s) : s[i] = c

\* s.find(c) + 1: the first position of c in s, 0 when absent
IndexOf(s, c) ==
    IF Contains(s, c) THEN CHOOSE i \in 1..Len(s) : s[i] = c /\ \A j \in 1..(i-1) : s[j] # c
    ELSE 0

\* s.split(sep, maxsplit) for a one-character sep; maxsplit = -1 is no limit
RECURSIVE Split(_, _, _)
Split(s, sep, maxsplit) ==
    LET i == IndexOf(s, sep) IN
    IF maxsplit = 0 \/ i = 0 THEN <<s>>
    ELSE <<SubSeq(s, 1, i - 1)>> \o Split(SubSeq(s, i + 1, Len(s)), sep, maxsplit - 1)

\* s.strip()
Strip(s) ==
    LET keep == {i \in 1..Len(s) : s[i] \notin Whitespace} IN
    IF keep = {} THEN <<>>
    ELSE SubSeq(s, CHOOSE i \in keep : \A j \in keep : i <= j,
                   CHOOSE i \in keep : \A j \in keep : i >= j)

\* s.replace('_', ' ')
ReplaceUnderscore(s) == [i \in 1..Len(s) |-> IF s[i] = "_" THEN " " ELSE s[i]]

----------------------------------------------------------------------------
(* the words the parser compares against *)

S_in == <<"i", "n">>
S_not_in == <<"n", "o", "t", "_", "i", "n">>
S_between == <<"b", "e", "t", "w", "e", "e", "n">>
S_is == <<"i", "s">>
S_is_not == <<"i", "s", "_", "n", "o", "t">>
S_not_like == <<"n", "o", "t", "_", "l", "i", "k", "e">>
S_not_like_out == <<"n", "o", "t", " ", "l", "i", "k", "e">>
S_gte == <<">", "=">>
S_lte == <<"<", "=">>
S_not_set == <<"n", "o", "t", " ", "s", "e", "t">>
S_set == <<"s", "e", "t">>
NullWords == {<<"n", "u", "l", "l">>, <<"n", "o", "n", "e">>, <<"e", "m", "p", "t", "y">>}
NotNullWords == {<<"n", "o", "t", "_", "n", "u", "l", "l">>, <<"n", "o", "t", "_", "n", "o", "n", "e">>, <<"n", "o", "t", "_", "e", "m", "p", "t", "y">>}
TrueWords == {<<"t", "r", "u", "e">>, <<"y", "e", "s">>, <<"1">>}
FalseWords == {<<"f", "a", "l", "s", "e">>, <<"n", "o">>, <<"0">>}

\* the text of the ValueError before the offending value string
BetweenErrorPrefix ==
    <<"B", "e", "t", "w", "e", "e", "n", " ", "o", "p", "e", "r", "a", "t", "o", "r", " ", "r", "e", "q", "u", "i", "r", "e", "s", " ", "e", "x", "a", "c", "t", "l", "y", " ", "2", " ", "v", "a", "l", "u", "e", "s", " ", "s", "e", "p", "a", "r", "a", "t", "e", "d", " ", "b", "y", " ", "|", ",", " ", "g", "o", "t", ":", " ">>

----------------------------------------------------------------------------
(* int(value_str) and float(value_str) *)

\* digit ("_"? digit)*
DigitPart(s) ==
    /\ s # <<>>
    /\ \A i \in 1..Len(s) : s[i] \in Digits \cup {"_"}
    /\ s[1] \in Digits
    /\ s[Len(s)] \in Digits
    /\ \A i \in 1..(Len(s) - 1) : ~(s[i] = "_" /\ s[i + 1] = "_")

RECURSIVE DigitsValue(_, _)
DigitsValue(s, acc) ==
    IF s = <<>> THEN acc
    ELSE IF Head(s) = "_" THEN DigitsValue(Tail(s), acc)
    ELSE DigitsValue(Tail(s), 10 * acc + DigitVal(Head(s)))

CountDigits(s) == Cardinality({i \in 1..Len(s) : s[i] \in Digits})

HasSign(s) == s # <<>> /\ s[1] \in {"+", "-"}
Unsigned(s) == IF HasSign(s) THEN Tail(s) ELSE s
SignOf(s) == IF s # <<>> /\ s[1] = "-" THEN -1 ELSE 1

\* int(s) does not raise ValueError
IsIntLiteral(s) == DigitPart(Unsigned(Strip(s)))
IntOf(s) == SignOf(Strip(s)) * DigitsValue(Unsigned(Strip(s)), 0)

\* the parts of a float literal: mantissa text and exponent text
ExpPos(s) ==
    IF \E i \in 1..Len(s) : s[i] \in {"e", "E"}
    THEN CHOOSE i \in 1..Len(s) : s[i] \in {"e", "E"} /\ \A j \in 1..(i-1) : s[j] \notin {"e", "E"}
    ELSE 0
MantissaText(s) == IF ExpPos(s) = 0 THEN s ELSE SubSeq(s, 1, ExpPos(s) - 1)
ExponentText(s) == IF ExpPos(s) = 0 THEN <<>> ELSE SubSeq(s, ExpPos(s) + 1, Len(s))
IntPart(m) == SubSeq(m, 1, IndexOf(m, ".") - 1)
FracPart(m) == SubSeq(m, IndexOf(m, ".") + 1, Len(m))

\* float(s) does not raise ValueError, for s holding a "."
IsFloatLiteral(s) ==
    LET body == Unsigned(Strip(s))
        m == MantissaText(body)
        x == ExponentText(body)
    IN /\ Contains(m, ".")
       /\ IntPart(m) = <<>> \/ DigitPart(IntPart(m))
       /\ FracPart(m) = <<>> \/ DigitPart(FracPart(m))
       /\ ~(IntPart(m) = <<>> /\ FracPart(m) = <<>>)
       /\ ExpPos(body) = 0 \/ DigitPart(Unsigned(x))

\* m * 10^e with m not a multiple of 10 (0 is 0 * 10^0)
RECURSIVE NormFloat(_, _)
NormFloat(m, e) ==
    IF m = 0 THEN PyFloat(0, 0)
    ELSE IF m % 10 = 0 THEN NormFloat(m \div 10, e + 1)
    ELSE PyFloat(m, e)

FloatOf(s) ==
    LET body == Unsigned(Strip(s))
        m == MantissaText(body)
        x == ExponentText(body)
        mant == DigitsValue(IntPart(m) \o FracPart(m), 0)
        expo == IF ExpPos(body) = 0 THEN 0 ELSE SignOf(x) * DigitsValue(Unsigned(x), 0)
    IN NormFloat(SignOf(Strip(s)) * mant, expo - CountDigits(FracPart(m)))

\* _convert_value testing the boolean words before the numbers
_convert_value_wordsfirst(value_str) ==
    LET v == Strip(value_str) IN
    IF Lower(v) \in TrueWords THEN PyBool(TRUE)
    ELSE IF Lower(v) \in FalseWords THEN PyBool(FALSE)
    ELSE IF Contains(v, ".") /\ IsFloatLiteral(v) THEN FloatOf(v)
    ELSE IF ~Contains(v, ".") /\ IsIntLiteral(v) THEN PyInt(IntOf(v))
    ELSE PyStr(v)

\* _convert_value comparing the boolean words as written, not lower-cased
_convert_value_casesensitive(value_str) ==
    LET v == Strip(value_str) IN
    IF Contains(v, ".") /\ IsFloatLiteral(v) THEN FloatOf(v)
    ELSE IF ~Contains(v, ".") /\ IsIntLiteral(v) THEN PyInt(IntOf(v))
    ELSE IF v \in TrueWords THEN PyBool(TRUE)
    ELSE IF v \in FalseWords THEN PyBool(FALSE)
    ELSE PyStr(v)

\* _convert_value: float or int when the text is a number, then the boolean
\* words, else the stripped text
_convert_value(value_str) ==
    LET v == Strip(value_str) IN
    IF Contains(v, ".") /\ IsFloatLiteral(v) THEN FloatOf(v)
    ELSE IF ~Contains(v, ".") /\ IsIntLiteral(v) THEN PyInt(IntOf(v))
    ELSE IF Lower(v) \in TrueWords THEN PyBool(TRUE)
    ELSE IF Lower(v) \in FalseWords THEN PyBool(FALSE)
    ELSE PyStr(v)

----------------------------------------------------------------------------
(* str(value) *)

DigitChar(n) ==
    CASE n = 0 -> "0" [] n = 1 -> "1" [] n = 2 -> "2" [] n = 3 -> "3"
      [] n = 4 -> "4" [] n = 5 -> "5" [] n = 6 -> "6" [] n = 7 -> "7"
      [] n = 8 -> "8" [] n = 9 -> "9"

\* the decimal digits of n >= 0
RECURSIVE NatText(_)
NatText(n) == IF n < 10 THEN <<DigitChar(n)>> ELSE NatText(n \div 10) \o <<DigitChar(n % 10)>>

IntText(n) == IF n < 0 THEN <<"-">> \o NatText(-n) ELSE NatText(n)

Zeros(k) == [i \in 1..k |-> "0"]

\* repr of the float m * 10^e (m not a multiple of 10): positional when the
\* leading digit stands at 10^-4 .. 10^15, else d[.ddd]e+XX
FloatText(m, e) ==
    LET digits == NatText(IF m < 0 THEN -m ELSE m)
        n == Len(digits)
        x == n - 1 + e
        sign == IF m < 0 THEN <<"-">> ELSE <<>>
    IN
    IF m = 0 THEN <<"0", ".", "0">>
    ELSE IF x < -4 \/ x >= 16 THEN
        sign \o <<digits[1]>>
             \o (IF n > 1 THEN <<".">> \o SubSeq(digits, 2, n) ELSE <<>>)
             \o <<"e">> \o (IF x < 0 THEN <<"-">> ELSE <<"+">>)
             \o (LET xt == NatText(IF x < 0 THEN -x ELSE x)
                 IN IF Len(xt) < 2 THEN <<"0">> \o xt ELSE xt)
    ELSE IF e >= 0 THEN sign \o digits \o Zeros(e) \o <<".", "0">>
    ELSE IF n > -e THEN sign \o SubSeq(digits, 1, n + e) \o <<".">> \o SubSeq(digits, n + e + 1, n)
    ELSE sign \o <<"0", ".">> \o Zeros((-e) - n) \o digits

\* str(value) of a value _convert_value returns
StrOf(value) ==
    CASE value.t = "int" -> IntText(value.i)
      [] value.t = "float" -> FloatText(value.m, value.e)
      [] value.t = "bool" -> IF value.b THEN <<"T", "r", "u", "e">> ELSE <<"F", "a", "l", "s", "e">>
      [] value.t = "str" -> value.s

----------------------------------------------------------------------------
(* dict operations, insertion-ordered *)

DictHas(d, k) == \E i \in 1..Len(d) : d[i].k = k
DictIndex(d, k) == CHOOSE i \in 1..Len(d) : d[i].k = k
DictGet(d, k) == d[DictIndex(d, k)].v
\* d[k] = v moving an existing key to the end, as del d[k]; d[k] = v does
DictSet_moved(d, k, v) ==
    LET NotK(e) == e.k # k IN Append(SelectSeq(d, NotK), [k |-> k, v |-> v])

\* d[k] = v: an existing key keeps its position
DictSet(d, k, v) ==
    IF DictHas(d, k) THEN [d EXCEPT ![DictIndex(d, k)] = [k |-> k, v |-> v]]
    ELSE Append(d, [k |-> k, v |-> v])
DictKeys(d) == [i \in 1..Len(d) |-> d[i].k]

\* [f(x) for x in xs]
MapConvert(xs) == [i \in 1..Len(xs) |-> _convert_value(xs[i])]
MapStrip(xs) == [i \in 1..Len(xs) |-> Strip(xs[i])]

----------------------------------------------------------------------------
(* parse_filter_string *)

\* field:value stored as an explicit "=" pair
EqualityCondition_pair(value_str) == PyList(<<PyStr(<<"=">>), _convert_value(value_str)>>)

\* "Simple field:value format (implies equality)": the bare converted value
EqualityCondition(value_str) == _convert_value(value_str)

\* in / not_in: the |-separated values, each converted
InCondition(operator, value_str) ==
    [ok |-> TRUE,
     cond |-> PyList(<<PyStr(ReplaceUnderscore(operator)),
                       PyList(MapConvert(MapStrip(Split(value_str, "|", -1))))>>)]

\* between without the test for exactly two values
BetweenCondition_noarity(operator, value_str) ==
    [ok |-> TRUE,
     cond |-> PyList(<<PyStr(operator),
                       PyList(MapConvert(MapStrip(Split(value_str, "|", -1))))>>)]

\* between: exactly two |-separated values, else a ValueError naming value_str
BetweenCondition(operator, value_str) ==
    LET range_values == MapStrip(Split(value_str, "|", -1)) IN
    IF Len(range_values) = 2
    THEN [ok |-> TRUE,
          cond |-> PyList(<<PyStr(operator), PyList(MapConvert(range_values))>>)]
    ELSE [ok |-> FALSE, msg |-> BetweenErrorPrefix \o value_str]

\* is / is_not with the null words compared as written, not lower-cased
IsCondition_casesensitive(operator, value_str) ==
    IF value_str \in NullWords
    THEN [ok |-> TRUE,
          cond |-> PyList(<<PyStr(ReplaceUnderscore(operator)), PyStr(S_not_set)>>)]
    ELSE IF value_str \in NotNullWords
    THEN [ok |-> TRUE,
          cond |-> PyList(<<PyStr(ReplaceUnderscore(operator)), PyStr(S_set)>>)]
    ELSE [ok |-> TRUE,
          cond |-> PyList(<<PyStr(ReplaceUnderscore(operator)), _convert_value(value_str)>>)]

\* is / is_not: "not set" for the null words, "set" for the not-null words,
\* else the converted value
IsCondition(operator, value_str) ==
    IF Lower(value_str) \in NullWords
    THEN [ok |-> TRUE,
          cond |-> PyList(<<PyStr(ReplaceUnderscore(operator)), PyStr(S_not_set)>>)]
    ELSE IF Lower(value_str) \in NotNullWords
    THEN [ok |-> TRUE,
          cond |-> PyList(<<PyStr(ReplaceUnderscore(operator)), PyStr(S_set)>>)]
    ELSE [ok |-> TRUE,
          cond |-> PyList(<<PyStr(ReplaceUnderscore(operator)), _convert_value(value_str)>>)]

\* not_like with the value converted, as the standard operators do
NotLikeCondition_coerced(value_str) ==
    [ok |-> TRUE, cond |-> PyList(<<PyStr(S_not_like_out), _convert_value(value_str)>>)]

\* not_like: the value as written
NotLikeCondition(value_str) ==
    [ok |-> TRUE, cond |-> PyList(<<PyStr(S_not_like_out), PyStr(value_str)>>)]

\* "Standard operators": the operator as written, the value converted
StandardCondition(operator, value_str) ==
    [ok |-> TRUE, cond |-> PyList(<<PyStr(operator), _convert_value(value_str)>>)]

\* The filter condition of a clause field:operator:value_str, or the
\* ValueError of a between clause that has not exactly two values.
FilterCondition(operator, value_str) ==
    LET op == Lower(operator) IN
    IF op \in {S_in, S_not_in} THEN InCondition(operator, value_str)
    ELSE IF op = S_between THEN BetweenCondition(operator, value_str)
    ELSE IF op \in {S_is, S_is_not} THEN IsCondition(operator, value_str)
    ELSE IF op = S_not_like THEN NotLikeCondition(value_str)
    ELSE StandardCondition(operator, value_str)

\* "not isinstance(x, list) or len(x) != 2 or not isinstance(x[0], list)":
\* the test by which the parser takes the stored value for a single condition
NeedsWrap(x) == ~IsList(x) \/ Len(x.l) # 2 \/ ~IsList(x.l[1])

\* "Handle multiple filters for the same field": store the first condition of
\* a field directly, append a later one to the field's list
AddCondition(filters_dict, field, filter_condition) ==
    IF DictHas(filters_dict, field) THEN
        LET old == DictGet(filters_dict, field)
            lst == IF NeedsWrap(old) THEN <<old>> ELSE old.l
        IN DictSet(filters_dict, field, PyList(Append(lst, filter_condition)))
    ELSE DictSet(filters_dict, field, filter_condition)

\* part.split(':') with no limit on the splits
Components_all(part) == Split(part, ":", -1)

\* part.split(':', 2)
Components(part) == Split(part, ":", 2)

\* One pass of the loop over filter_parts: the dict after the part, or the
\* exception the part raises.
ProcessPart(filters_dict, raw_part) ==
    LET part == Strip(raw_part)
        components == Components(part)
    IN
    IF ~Contains(part, ":") THEN [ok |-> TRUE, dict |-> filters_dict]
    ELSE IF Len(components) >= 3 THEN
        LET field == Strip(components[1])
            operator == Strip(components[2])
            value_str == components[3]
            fc == FilterCondition(operator, value_str)
        IN IF fc.ok
           THEN [ok |-> TRUE, dict |-> AddCondition(filters_dict, field, fc.cond)]
           ELSE [ok |-> FALSE, msg |-> fc.msg]
    ELSE IF Len(components) = 2 THEN
        LET field == Strip(components[1])
            value_str == components[2]
        IN [ok |-> TRUE,
            dict |-> AddCondition(filters_dict, field, EqualityCondition(value_str))]
    ELSE [ok |-> TRUE, dict |-> filters_dict]

\* "for part in filter_parts", from part i on
RECURSIVE ProcessParts(_, _, _)
ProcessParts(filter_parts, i, filters_dict) ==
    IF i > Len(filter_parts) THEN [ok |-> TRUE, dict |-> filters_dict]
    ELSE LET r == ProcessPart(filters_dict, filter_parts[i]) IN
         IF r.ok THEN ProcessParts(filter_parts, i + 1, r.dict) ELSE r

\* the scan leaving the >= and <= conditions among the other conditions
RECURSIVE ScanConditions_keep(_, _, _)
ScanConditions_keep(conditions, i, acc) ==
    IF i > Len(conditions) THEN acc
    ELSE LET condition == conditions[i]
             kept == [acc EXCEPT !.other_conditions = Append(@, condition)]
         IN
         IF IsList(condition) /\ Len(condition.l) = 2 THEN
             IF condition.l[1] = PyStr(S_gte)
             THEN ScanConditions_keep(conditions, i + 1, [kept EXCEPT !.gte_value = condition.l[2]])
             ELSE IF condition.l[1] = PyStr(S_lte)
             THEN ScanConditions_keep(conditions, i + 1, [kept EXCEPT !.lte_value = condition.l[2]])
             ELSE ScanConditions_keep(conditions, i + 1, kept)
         ELSE ScanConditions_keep(conditions, i + 1, kept)

\* the scan keeping the first >= value and the first <= value
RECURSIVE ScanConditions_first(_, _, _)
ScanConditions_first(conditions, i, acc) ==
    IF i > Len(conditions) THEN acc
    ELSE LET condition == conditions[i] IN
         IF IsList(condition) /\ Len(condition.l) = 2 THEN
             IF condition.l[1] = PyStr(S_gte)
             THEN ScanConditions_first(conditions, i + 1,
                     IF acc.gte_value = PyNone THEN [acc EXCEPT !.gte_value = condition.l[2]]
                     ELSE acc)
             ELSE IF condition.l[1] = PyStr(S_lte)
             THEN ScanConditions_first(conditions, i + 1,
                     IF acc.lte_value = PyNone THEN [acc EXCEPT !.lte_value = condition.l[2]]
                     ELSE acc)
             ELSE ScanConditions_first(conditions, i + 1,
                     [acc EXCEPT !.other_conditions = Append(@, condition)])
         ELSE ScanConditions_first(conditions, i + 1,
                 [acc EXCEPT !.other_conditions = Append(@, condition)])

\* The scan of one field's conditions: the last >= value, the last <= value
\* and the other conditions in order.
RECURSIVE ScanConditions(_, _, _)
ScanConditions(conditions, i, acc) ==
    IF i > Len(conditions) THEN acc
    ELSE LET condition == conditions[i] IN
         IF IsList(condition) /\ Len(condition.l) = 2 THEN
             LET operator == condition.l[1]
                 value == condition.l[2]
             IN IF operator = PyStr(S_gte)
                THEN ScanConditions(conditions, i + 1, [acc EXCEPT !.gte_value = value])
                ELSE IF operator = PyStr(S_lte)
                THEN ScanConditions(conditions, i + 1, [acc EXCEPT !.lte_value = value])
                ELSE ScanConditions(conditions, i + 1,
                        [acc EXCEPT !.other_conditions = Append(@, condition)])
         ELSE ScanConditions(conditions, i + 1,
                 [acc EXCEPT !.other_conditions = Append(@, condition)])

\* the between condition always inside a list
BetweenFrom_listed(gte_value, lte_value, other_conditions) ==
    PyList(<<PyList(<<PyStr(S_between), PyList(<<gte_value, lte_value>>)>>)>>
           \o other_conditions)

\* the between condition put after the other conditions
BetweenFrom_appended(gte_value, lte_value, other_conditions) ==
    IF other_conditions # <<>>
    THEN PyList(other_conditions
                \o <<PyList(<<PyStr(S_between), PyList(<<gte_value, lte_value>>)>>)>>)
    ELSE PyList(<<PyStr(S_between), PyList(<<gte_value, lte_value>>)>>)

\* "If we found both >= and <= conditions, convert to between": the between
\* condition alone, or in front of the other conditions
BetweenFrom(gte_value, lte_value, other_conditions) ==
    LET between_condition == PyList(<<PyStr(S_between), PyList(<<gte_value, lte_value>>)>>)
    IN IF other_conditions # <<>>
       THEN PyList(<<between_condition>> \o other_conditions)
       ELSE between_condition

\* the optimized value of one field
OptimizeField(conditions) ==
    IF IsList(conditions) /\ Len(conditions.l) >= 2 THEN
        LET scan == ScanConditions(conditions.l, 1,
                        [gte_value |-> PyNone, lte_value |-> PyNone,
                         other_conditions |-> <<>>])
        IN IF scan.gte_value # PyNone /\ scan.lte_value # PyNone
           THEN BetweenFrom(scan.gte_value, scan.lte_value, scan.other_conditions)
           ELSE conditions
    ELSE conditions

\* _optimize_range_filters: every field, in order, with its optimized value
_optimize_range_filters(filters_dict) ==
    [i \in 1..Len(filters_dict) |->
        [k |-> filters_dict[i].k, v |-> OptimizeField(filters_dict[i].v)]]

\* parse_filter_string returning None when no clause gave an entry
parse_filter_string_nullable(fs) ==
    IF fs = PyNone THEN Raise("AttributeError", <<>>)
    ELSE LET r == ProcessParts(Split(fs.s, ",", -1), 1, <<>>) IN
         IF ~r.ok THEN Raise("ValueError", r.msg)
         ELSE IF r.dict = <<>> THEN Return(PyNone)
         ELSE Return(PyDict(_optimize_range_filters(r.dict)))

\* parse_filter_string(filter_str): a dict, or the exception raised
parse_filter_string(fs) ==
    IF fs = PyNone THEN Raise("AttributeError", <<>>)
    ELSE LET r == ProcessParts(Split(fs.s, ",", -1), 1, <<>>) IN
         IF r.ok THEN Return(PyDict(_optimize_range_filters(r.dict)))
         ELSE Raise("ValueError", r.msg)

\* format_filters_for_api testing "filters is None" instead of "not filters"
format_filters_for_api_noneonly(filters) ==
    IF filters = PyNone THEN Return(PyNone) ELSE parse_filter_string(filters)

\* format_filters_for_api(filters): None for None and for "", else the parse
format_filters_for_api(filters) ==
    IF filters = PyNone \/ filters.s = <<>> THEN Return(PyNone)
    ELSE parse_filter_string(filters)

----------------------------------------------------------------------------
(* The filter strings callers write.  A clause is a bare text (no colon),  *)
(* field:value or field:operator:value; the filter string is the clauses   *)
(* joined by commas.                                                       *)

Clause(shape, f, o, v) == [shape |-> shape, f |-> f, o |-> o, v |-> v]

RenderClause(c) ==
    IF c.shape = "text" THEN c.v
    ELSE IF c.shape = "fv" THEN c.f \o <<":">> \o c.v
    ELSE c.f \o <<":">> \o c.o \o <<":">> \o c.v

RECURSIVE Render(_)
Render(cs) ==
    IF cs = <<>> THEN <<>>
    ELSE IF Len(cs) = 1 THEN RenderClause(cs[1])
    ELSE RenderClause(cs[1]) \o <<",">> \o Render(Tail(cs))

\* the number of clauses of the longest mixed filter string
MaxClauses == 4

FieldTexts == {
     <<>>, <<"f">>, <<" ", "g", " ">> }

OperatorTexts ==
    {
     <<>>, <<">", "=">>, <<"<", "=">>, <<">">>, <<"=">>,
     <<"!", "=">>, <<" ", "<", " ">>, <<"l", "i", "k", "e">>, <<"L", "I", "K", "E">>, <<"i", "n">>,
     <<"I", "N">>, <<"n", "o", "t", "_", "i", "n">>, <<"N", "o", "t", "_", "I", "n">>, <<"b", "e", "t", "w", "e", "e", "n">>, <<"B", "E", "T", "W", "E", "E", "N">>,
     <<"i", "s">>, <<"I", "S">>, <<"i", "s", "_", "n", "o", "t">>, <<"I", "s", "_", "N", "o", "t">>, <<"n", "o", "t", "_", "l", "i", "k", "e">>,
     <<"N", "O", "T", "_", "L", "I", "K", "E">> }

ValueTexts ==
    {
     <<>>, <<"x">>, <<"1">>, <<"a", ":", "b">>,
     <<"1", "|", "2">>, <<"x", "|", "Y", "|", "1">>, <<"x", "|", "|">>, <<"n", "u", "l", "l">>,
     <<"N", "U", "L", "L">>, <<" ", "n", "u", "l", "l">>, <<"n", "o", "t", "_", "n", "u", "l", "l">>, <<"N", "o", "t", "_", "E", "m", "p", "t", "y">>,
     <<"t", "r", "u", "e">>, <<"1", ".", "5">>, <<" ", "y", " ">>, <<"%", "a", "%">> }

BareTexts == {
     <<"z", "z">>, <<>>, <<" ">> }

\* every single clause over the texts above; field:value only for a value
\* without a colon (with one, the clause is field:operator:value)
SingleClauses ==
    {Clause("text", <<>>, <<>>, v) : v \in BareTexts}
    \cup {Clause("fv", f, <<>>, v) : f \in FieldTexts, v \in {w \in ValueTexts : ~Contains(w, ":")}}
    \cup {Clause("fov", f, o, v) : f \in FieldTexts, o \in OperatorTexts, v \in ValueTexts}

\* the clauses that are mixed freely, in any order
MixClauses ==
    { Clause("fv", <<"f">>, <<>>, <<"x">>),
      Clause("fov", <<"f">>, <<">", "=">>, <<"1">>),
      Clause("fov", <<"f">>, <<"<", "=">>, <<"2">>),
      Clause("fov", <<"f">>, <<">">>, <<"3">>),
      Clause("fov", <<"f">>, <<"i", "n">>, <<"1", "|", "2">>),
      Clause("fov", <<"f">>, <<"b", "e", "t", "w", "e", "e", "n">>, <<"1">>),
      Clause("fv", <<"g">>, <<>>, <<"1">>),
      Clause("text", <<>>, <<>>, <<"z", "z">>),
      Clause("fv", <<>>, <<>>, <<"x">>),
      Clause("fv", <<"f">>, <<>>, <<>>),
      Clause("text", <<>>, <<>>, <<" ">>) }

\* a >= clause and a <= clause on one field, in either order, over all values
RangePairs ==
    {<<Clause("fov", <<"f">>, S_gte, a), Clause("fov", <<"f">>, S_lte, b)>> :
        a \in ValueTexts, b \in ValueTexts}
    \cup {<<Clause("fov", <<"f">>, S_lte, b), Clause("fov", <<"f">>, S_gte, a)>> :
        a \in ValueTexts, b \in ValueTexts}

ClauseSeqs ==
    {<<c>> : c \in SingleClauses}
    \cup RangePairs
    \cup UNION {[1..n -> MixClauses] : n \in 0..MaxClauses}

----------------------------------------------------------------------------
(* The literals callers write as values.  A literal is described by what   *)
(* the caller means: a number by its sign, integer digits and fraction      *)
(* digits with the numbers they denote, a word by its reading.              *)

PadTexts == {<<>>, <<" ">>, <<"\t", " ">>}

SignTexts == {[t |-> <<>>, n |-> 1], [t |-> <<"-">>, n |-> -1], [t |-> <<"+">>, n |-> 1]}

\* integer digits and the number they denote
IntTexts ==
    {[t |-> <<>>, n |-> 0], [t |-> <<"0">>, n |-> 0], [t |-> <<"1">>, n |-> 1],
     [t |-> <<"1", "2">>, n |-> 12], [t |-> <<"0", "0", "7">>, n |-> 7],
     [t |-> <<"1", "_", "0">>, n |-> 10]}

\* fraction digits, the number they denote and how many they are
FracTexts ==
    {[t |-> <<>>, n |-> 0, d |-> 0], [t |-> <<"5">>, n |-> 5, d |-> 1],
     [t |-> <<"5", "0">>, n |-> 50, d |-> 2], [t |-> <<"0", "5">>, n |-> 5, d |-> 2],
     [t |-> <<"0", "0", "0", "0", "1">>, n |-> 1, d |-> 5]}

NumberTokens ==
    {[kind |-> "number", sign |-> s, int |-> i, point |-> FALSE, frac |-> [t |-> <<>>, n |-> 0, d |-> 0]] :
        s \in SignTexts, i \in IntTexts}
    \cup {[kind |-> "number", sign |-> s, int |-> i, point |-> TRUE, frac |-> f] :
        s \in SignTexts, i \in IntTexts, f \in FracTexts}

\* floats written with an exponent: the text, the float m * 10^e it denotes
\* and whether its magnitude is in 10^-4 .. 10^16, where floats print
\* without an exponent
ExponentTokens ==
    {[kind |-> "exponent", core |-> <<"1", ".", "5", "e", "3">>, m |-> 15, e |-> 2, positional |-> TRUE],
     [kind |-> "exponent", core |-> <<"1", ".", "e", "2", "0">>, m |-> 1, e |-> 20, positional |-> FALSE],
     [kind |-> "exponent", core |-> <<"2", ".", "5", "E", "-", "7">>, m |-> 25, e |-> -8, positional |-> FALSE],
     [kind |-> "exponent", core |-> <<".", "5", "e", "1">>, m |-> 5, e |-> 0, positional |-> TRUE],
     [kind |-> "exponent", core |-> <<"1", ".", "2", "5", "e", "+", "2">>, m |-> 125, e |-> 0, positional |-> TRUE],
     [kind |-> "exponent", core |-> <<"-", "1", ".", "0", "e", "1", "6">>, m |-> -1, e |-> 16, positional |-> FALSE],
     [kind |-> "exponent", core |-> <<"1", ".", "5", "e", "1", "6">>, m |-> 15, e |-> 15, positional |-> FALSE]}

\* words: read as true, as false, or as the text they are
WordTokens ==
    {[kind |-> "word", core |-> <<"t", "r", "u", "e">>, means |-> "true"],
     [kind |-> "word", core |-> <<"T", "r", "u", "e">>, means |-> "true"],
     [kind |-> "word", core |-> <<"T", "R", "U", "E">>, means |-> "true"],
     [kind |-> "word", core |-> <<"y", "e", "s">>, means |-> "true"],
     [kind |-> "word", core |-> <<"Y", "e", "s">>, means |-> "true"],
     [kind |-> "word", core |-> <<"Y", "E", "S">>, means |-> "true"],
     [kind |-> "word", core |-> <<"t", "R", "u", "E">>, means |-> "true"],
     [kind |-> "word", core |-> <<"f", "a", "l", "s", "e">>, means |-> "false"],
     [kind |-> "word", core |-> <<"F", "a", "l", "s", "e">>, means |-> "false"],
     [kind |-> "word", core |-> <<"F", "A", "L", "S", "E">>, means |-> "false"],
     [kind |-> "word", core |-> <<"n", "o">>, means |-> "false"],
     [kind |-> "word", core |-> <<"N", "o">>, means |-> "false"],
     [kind |-> "word", core |-> <<"N", "O">>, means |-> "false"],
     [kind |-> "word", core |-> <<>>, means |-> "text"],
     [kind |-> "word", core |-> <<"x">>, means |-> "text"],
     [kind |-> "word", core |-> <<"y", " ", "z">>, means |-> "text"],
     [kind |-> "word", core |-> <<"t", "r", "u">>, means |-> "text"],
     [kind |-> "word", core |-> <<"y", "e", "s", "s">>, means |-> "text"],
     [kind |-> "word", core |-> <<"o", "n">>, means |-> "text"],
     [kind |-> "word", core |-> <<"o", "f", "f">>, means |-> "text"],
     [kind |-> "word", core |-> <<"t">>, means |-> "text"],
     [kind |-> "word", core |-> <<"n">>, means |-> "text"],
     [kind |-> "word", core |-> <<"1", "e", "5">>, means |-> "text"],
     [kind |-> "word", core |-> <<"1", "e", "+", "2", "0">>, means |-> "text"],
     [kind |-> "word", core |-> <<"i", "n", "f">>, means |-> "text"],
     [kind |-> "word", core |-> <<"n", "a", "n">>, means |-> "text"],
     [kind |-> "word", core |-> <<"N", "o", "n", "e">>, means |-> "text"],
     [kind |-> "word", core |-> <<"-", "-", "1">>, means |-> "text"],
     [kind |-> "word", core |-> <<"1", "-">>, means |-> "text"],
     [kind |-> "word", core |-> <<"0", "x", "1", "A">>, means |-> "text"],
     [kind |-> "word", core |-> <<"1", " ", "2">>, means |-> "text"],
     [kind |-> "word", core |-> <<"1", "_", "_", "0">>, means |-> "text"],
     [kind |-> "word", core |-> <<"_", "1">>, means |-> "text"],
     [kind |-> "word", core |-> <<"1", ",", "5">>, means |-> "text"],
     [kind |-> "word", core |-> <<"a", ".", "b">>, means |-> "text"],
     [kind |-> "word", core |-> <<"1", ".", "2", ".", "3">>, means |-> "text"],
     [kind |-> "word", core |-> <<".">>, means |-> "text"]}

\* a token and the whitespace written around it
Tokens ==
    {[lit |-> l, pad |-> p] : l \in NumberTokens \cup ExponentTokens \cup WordTokens, p \in PadTexts}

NoToken == [lit |-> [kind |-> "none"], pad |-> <<>>]

\* the token without the whitespace around it
TokenCore(l) ==
    IF l.kind = "number"
    THEN l.sign.t \o l.int.t \o (IF l.point THEN <<".">> ELSE <<>>) \o l.frac.t
    ELSE l.core

TokenText(tk) == tk.pad \o TokenCore(tk.lit) \o tk.pad

----------------------------------------------------------------------------
(* The states in which nothing has been called *)

\* no call of the parser's functions has been made
NoCall ==
    /\ pc = "idle"
    /\ entry = "none"
    /\ clauses = <<>>
    /\ filter_str = PyNone
    /\ outcome = NoOutcome
    /\ token = NoToken
    /\ value_in = PyNone

\* the number of concurrent callers
NumCallers == 2

Callers == 1..NumCallers

\* a caller not in a call
IdleCall == [at |-> "idle", filter_str |-> PyNone, filter_parts |-> <<>>, part |-> 0,
             outcome |-> NoOutcome]

\* no call is in progress
NoCallers ==
    /\ calls = [c \in Callers |-> IdleCall]
    /\ locals = [c \in Callers |-> <<>>]

\* an environment variable that is not set: os.getenv gives None
Unset == PyNone

NotStarted ==
    [at |-> "not started", entry |-> "none", transport |-> "none", credentials_valid |-> FALSE,
     serving |-> "none", status |-> PyNone, stderr |-> "none"]

NoAuthCall == [fn |-> "none", outcome |-> NoOutcome]

NoToolCall ==
    [name |-> "none", clauses |-> <<>>, filters |-> PyNone, sent |-> <<>>,
     result |-> [t |-> "none", text |-> <<>>]]

\* no server process, no client, nothing set in the environment
NoServer ==
    /\ environ = [FRAPPE_API_KEY |-> Unset, FRAPPE_API_SECRET |-> Unset, FRAPPE_BASE_URL |-> Unset]
    /\ process = NotStarted
    /\ _client_instance = PyNone
    /\ auth = NoAuthCall
    /\ tool = NoToolCall

NoLifecycleCall ==
    [tool |-> "none", name |-> <<>>, net |-> "none", found |-> FALSE,
     doc |-> [docstatus |-> PyNone, amended_from |-> PyNone], sent |-> <<>>, result |-> "none"]

NoDeleteCall ==
    [name |-> <<>>, net |-> "none", found |-> FALSE,
     doc |-> [docstatus |-> PyNone, amended_from |-> PyNone], sent |-> <<>>, result |-> "none"]

\* no backend, no lifecycle call
NoDocuments ==
    /\ documents = <<>>
    /\ lifecycle = NoLifecycleCall
    /\ deletion = NoDeleteCall


NoOptimizeCall == [at |-> "idle", parts |-> <<>>, listed |-> FALSE, arg |-> <<>>, result |-> <<>>]

\* _optimize_range_filters has not been called on its own
NoOptimizing == optimizing = NoOptimizeCall


\* the coroutines that share the client
NumTasks == 2
Tasks == 1..NumTasks

\* a coroutine that is not running
Idle == [op |-> "none", at |-> "idle", client |-> 0, aclosed |-> FALSE]

\* the shared client as __init__ leaves it, nothing running on it
NoClientUse ==
    /\ shared_client = [_client |-> PyNone]
    /\ httpx_clients = <<>>
    /\ coroutines = [t \in Tasks |-> Idle]


\* no call of amend_document is searching for a name
NoSearch ==
    [at |-> "idle", name |-> <<>>, existing |-> {}, base_name |-> <<>>, start |-> 0,
     amended_counter |-> 0, amended_name |-> <<>>, answers |-> <<>>, sent |-> <<>>]

NoAmending == amending = NoSearch

----------------------------------------------------------------------------
(* Concurrent callers of parse_filter_string.  A call runs its loop one     *)
(* part at a time, and the calls of different callers interleave freely.    *)

\* the clauses the concurrent callers write, alone or in twos
CallerClauses ==
    { Clause("fov", <<"f">>, <<">", "=">>, <<"1">>),
      Clause("fov", <<"f">>, <<"<", "=">>, <<"2">>),
      Clause("fov", <<"f">>, <<"b", "e", "t", "w", "e", "e", "n">>, <<"1">>) }

CallerInputs ==
    {<<>>} \cup {<<a>> : a \in CallerClauses} \cup {<<a, b>> : a, b \in CallerClauses}

\* every call keeping its accumulator in one place shared by all calls
LocalOf_shared(c) == 1

\* where the call of caller c keeps filters_dict: in its own frame
LocalOf(c) == c

\* caller c calls parse_filter_string: filters_dict = {} and the split
Enter(c) ==
    /\ calls[c].at = "idle"
    /\ \E cs \in CallerInputs :
        calls' = [calls EXCEPT ![c] =
                    [at |-> "loop", filter_str |-> PyStr(Render(cs)),
                     filter_parts |-> Split(Render(cs), ",", -1), part |-> 1,
                     outcome |-> NoOutcome]]
    /\ locals' = [locals EXCEPT ![LocalOf(c)] = <<>>]
    /\ UNCHANGED outsideCallers

\* one pass of "for part in filter_parts" in the call of caller c
LoopPart(c) ==
    /\ calls[c].at = "loop"
    /\ calls[c].part <= Len(calls[c].filter_parts)
    /\ LET r == ProcessPart(locals[LocalOf(c)], calls[c].filter_parts[calls[c].part]) IN
        IF r.ok
        THEN /\ locals' = [locals EXCEPT ![LocalOf(c)] = r.dict]
             /\ calls' = [calls EXCEPT ![c].part = @ + 1]
        ELSE /\ calls' = [calls EXCEPT ![c].at = "done",
                                       ![c].outcome = Raise("ValueError", r.msg)]
             /\ UNCHANGED locals
    /\ UNCHANGED outsideCallers

\* the loop has ended: _optimize_range_filters(filters_dict) is returned
LeaveOptimized(c) ==
    /\ calls[c].at = "loop"
    /\ calls[c].part > Len(calls[c].filter_parts)
    /\ calls' = [calls EXCEPT
                    ![c].at = "done",
                    ![c].outcome = Return(PyDict(_optimize_range_filters(locals[LocalOf(c)])))]
    /\ UNCHANGED locals
    /\ UNCHANGED outsideCallers

\* caller c has taken the outcome of its call
Taken(c) ==
    /\ calls[c].at = "done"
    /\ calls' = [calls EXCEPT ![c] = IdleCall]
    /\ UNCHANGED locals
    /\ UNCHANGED outsideCallers

InitCallers ==
    /\ NoCallers
    /\ NoAmending
    /\ NoClientUse
    /\ NoOptimizing
    /\ NoCall
    /\ NoServer
    /\ NoDocuments

NextCallers ==
    \E c \in Callers :
        \/ Enter(c)
        \/ LoopPart(c)
        \/ LeaveOptimized(c)
        \/ Taken(c)

SpecCallers == InitCallers /\ [][NextCallers]_vars

----------------------------------------------------------------------------
(* The calls.  No call keeps anything between calls: the state holds the   *)
(* last call's argument and outcome so that they can be compared.          *)

Init ==
    /\ pc = "idle"
    /\ entry = "none"
    /\ clauses = <<>>
    /\ filter_str = PyNone
    /\ outcome = NoOutcome
    /\ token = NoToken
    /\ value_in = PyNone
    /\ NoCallers
    /\ NoAmending
    /\ NoClientUse
    /\ NoOptimizing
    /\ NoServer
    /\ NoDocuments

\* what a caller passes: None, or the filter string of some clauses
Arguments ==
    {[none |-> TRUE, cs |-> <<>>]}
    \cup {[none |-> FALSE, cs |-> cs] : cs \in ClauseSeqs}

ArgumentValue(arg) == IF arg.none THEN PyNone ELSE PyStr(Render(arg.cs))

\* a tool handler calls format_filters_for_api(filters)
Call_format_filters_for_api ==
    /\ pc = "idle"
    /\ \E arg \in Arguments :
        /\ clauses' = arg.cs
        /\ filter_str' = ArgumentValue(arg)
        /\ outcome' = format_filters_for_api(ArgumentValue(arg))
    /\ pc' = "done"
    /\ entry' = "format_filters_for_api"
    /\ UNCHANGED <<token, value_in>>
    /\ UNCHANGED outsideParser

\* parse_filter_string(filter_str) called on its own
Call_parse_filter_string ==
    /\ pc = "idle"
    /\ \E arg \in Arguments :
        /\ clauses' = arg.cs
        /\ filter_str' = ArgumentValue(arg)
        /\ outcome' = parse_filter_string(ArgumentValue(arg))
    /\ pc' = "done"
    /\ entry' = "parse_filter_string"
    /\ UNCHANGED <<token, value_in>>
    /\ UNCHANGED outsideParser

\* the caller has taken the outcome; nothing of the call remains
Finish ==
    /\ pc = "done"
    /\ pc' = "idle"
    /\ entry' = "none"
    /\ clauses' = <<>>
    /\ filter_str' = PyNone
    /\ outcome' = NoOutcome
    /\ token' = NoToken
    /\ value_in' = PyNone
    /\ UNCHANGED outsideParser

\* _convert_value(value_str) on the text of a token
Call__convert_value ==
    /\ pc = "idle"
    /\ \E tk \in Tokens :
        /\ token' = tk
        /\ value_in' = PyStr(TokenText(tk))
        /\ outcome' = Return(_convert_value(TokenText(tk)))
    /\ pc' = "done"
    /\ entry' = "_convert_value"
    /\ UNCHANGED <<clauses, filter_str>>
    /\ UNCHANGED outsideParser

\* _convert_value(str(value)) on the value the last _convert_value returned
Call__convert_value_of_str ==
    /\ pc = "done"
    /\ entry = "_convert_value"
    /\ value_in' = PyStr(StrOf(outcome.value))
    /\ outcome' = Return(_convert_value(StrOf(outcome.value)))
    /\ entry' = "_convert_value(str)"
    /\ UNCHANGED <<pc, clauses, filter_str, token>>
    /\ UNCHANGED outsideParser

Next ==
    \/ Call_format_filters_for_api
    \/ Call_parse_filter_string
    \/ Call__convert_value
    \/ Call__convert_value_of_str
    \/ Finish

Spec == Init /\ [][Next]_vars

----------------------------------------------------------------------------
(* The server: auth.py, frappe_api.py, server.py, main.py and the tools    *)
(* that take a filter argument.                                            *)

M_both_missing ==
    <<"B", "o", "t", "h", " ", "A", "P", "I", " ", "k", "e", "y", " ", "a", "n", "d", " ", "A", "P", "I", " ", "s", "e", "c", "r", "e", "t", " ", "a", "r", "e", " ", "m", "i", "s", "s", "i", "n", "g">>
M_key_missing ==
    <<"A", "P", "I", " ", "k", "e", "y", " ", "i", "s", " ", "m", "i", "s", "s", "i", "n", "g">>
M_secret_missing ==
    <<"A", "P", "I", " ", "s", "e", "c", "r", "e", "t", " ", "i", "s", " ", "m", "i", "s", "s", "i", "n", "g">>
M_configured ==
    <<"A", "P", "I", " ", "c", "r", "e", "d", "e", "n", "t", "i", "a", "l", "s", " ", "a", "r", "e", " ", "p", "r", "o", "p", "e", "r", "l", "y", " ", "c", "o", "n", "f", "i", "g", "u", "r", "e", "d">>
M_auth_method ==
    <<"A", "P", "I", " ", "k", "e", "y", "/", "s", "e", "c", "r", "e", "t", " ", "(", "t", "o", "k", "e", "n", ")">>
M_auth_failed ==
    <<"A", "u", "t", "h", "e", "n", "t", "i", "c", "a", "t", "i", "o", "n", " ", "f", "a", "i", "l", "e", "d", ":", " ">>
M_only_method ==
    <<"A", "P", "I", " ", "k", "e", "y", "/", "s", "e", "c", "r", "e", "t", " ", "i", "s", " ", "t", "h", "e", " ", "o", "n", "l", "y", " ", "s", "u", "p", "p", "o", "r", "t", "e", "d", " ", "a", "u", "t", "h", "e", "n", "t", "i", "c", "a", "t", "i", "o", "n", " ", "m", "e", "t", "h", "o", "d", ".">>
M_base_url_required ==
    <<"F", "R", "A", "P", "P", "E", "_", "B", "A", "S", "E", "_", "U", "R", "L", " ", "e", "n", "v", "i", "r", "o", "n", "m", "e", "n", "t", " ", "v", "a", "r", "i", "a", "b", "l", "e", " ", "i", "s", " ", "r", "e", "q", "u", "i", "r", "e", "d">>
M_api_error ==
    <<"F", "r", "a", "p", "p", "e", " ", "A", "P", "I", " ", "e", "r", "r", "o", "r", ":", " ">>
M_check_key ==
    <<" ", "P", "l", "e", "a", "s", "e", " ", "c", "h", "e", "c", "k", " ", "y", "o", "u", "r", " ", "A", "P", "I", " ", "k", "e", "y", " ", "a", "n", "d", " ", "s", "e", "c", "r", "e", "t", ".">>
M_error_in ==
    <<"E", "r", "r", "o", "r", " ", "i", "n", " ">>
M_http ==
    <<"H", "T", "T", "P", " ">>
M_request_failed ==
    <<"H", "T", "T", "P", " ", "r", "e", "q", "u", "e", "s", "t", " ", "f", "a", "i", "l", "e", "d", ":", " ">>

M_documents_total ==
    <<" ", "d", "o", "c", "u", "m", "e", "n", "t", "s", " ", "t", "o", "t", "a", "l">>
M_matching_filters ==
    <<" ", "d", "o", "c", "u", "m", "e", "n", "t", "s", " ", "m", "a", "t", "c", "h", "i", "n", "g", " ", "f", "i", "l", "t", "e", "r", "s", ":", " ">>
M_no_data_returned ==
    <<"N", "o", " ", "d", "a", "t", "a", " ", "r", "e", "t", "u", "r", "n", "e", "d">>

\* "not x" for x None or a str
Falsy(x) == x = PyNone \/ x.s = <<>>

Validation(valid, message, key, secret) ==
    [valid |-> valid, message |-> message,
     details |-> [api_key_available |-> key, api_secret_available |-> secret,
                  auth_method |-> M_auth_method]]

\* validate_api_credentials testing "is None" instead of "not"
validate_api_credentials_isnone(env) ==
    LET api_key == env.FRAPPE_API_KEY
        api_secret == env.FRAPPE_API_SECRET
    IN IF api_key = PyNone /\ api_secret = PyNone THEN Validation(FALSE, M_both_missing, FALSE, FALSE)
       ELSE IF api_key = PyNone THEN Validation(FALSE, M_key_missing, FALSE, TRUE)
       ELSE IF api_secret = PyNone THEN Validation(FALSE, M_secret_missing, TRUE, FALSE)
       ELSE Validation(TRUE, M_configured, TRUE, TRUE)

\* validate_api_credentials(), reading the environment env
validate_api_credentials(env) ==
    LET api_key == env.FRAPPE_API_KEY
        api_secret == env.FRAPPE_API_SECRET
    IN IF Falsy(api_key) /\ Falsy(api_secret) THEN Validation(FALSE, M_both_missing, FALSE, FALSE)
       ELSE IF Falsy(api_key) THEN Validation(FALSE, M_key_missing, FALSE, TRUE)
       ELSE IF Falsy(api_secret) THEN Validation(FALSE, M_secret_missing, TRUE, FALSE)
       ELSE Validation(TRUE, M_configured, TRUE, TRUE)

\* get_api_credentials(): the credentials, or the ValueError raised
get_api_credentials(env) ==
    LET api_key == env.FRAPPE_API_KEY
        api_secret == env.FRAPPE_API_SECRET
    IN IF Falsy(api_key) \/ Falsy(api_secret)
       THEN Raise("ValueError", M_auth_failed \o validate_api_credentials(env).message)
       ELSE Return([api_key |-> api_key.s, api_secret |-> api_secret.s])

\* an exception a tool catches
Error(exc, msg, status_code) == [exc |-> exc, msg |-> msg, status_code |-> status_code]

\* FrappeApiClient(): the client for FRAPPE_BASE_URL, or the ValueError raised
FrappeApiClient(env) ==
    LET base_url == IF env.FRAPPE_BASE_URL = PyNone THEN <<>> ELSE env.FRAPPE_BASE_URL.s IN
    IF base_url = <<>>
    THEN [ok |-> FALSE, error |-> Error("ValueError", M_base_url_required, PyNone)]
    ELSE [ok |-> TRUE,
          instance |-> [base_url |-> IF base_url[Len(base_url)] = "/" THEN base_url
                                     ELSE base_url \o <<"/">>,
                        _client |-> "none"]]

\* get_client(): the singleton, created on first use
get_client(env, instance) ==
    IF instance = PyNone THEN FrappeApiClient(env) ELSE [ok |-> TRUE, instance |-> instance]

\* FrappeApiClient._get_client(): the client with its httpx client open, or
\* the ValueError of get_api_credentials
_get_client(env, instance) ==
    IF instance._client = "none" THEN
        LET credentials == get_api_credentials(env) IN
        IF credentials.kind = "raise"
        THEN [ok |-> FALSE, error |-> Error(credentials.exc, credentials.msg, PyNone)]
        ELSE [ok |-> TRUE, instance |-> [instance EXCEPT !._client = "open"]]
    ELSE [ok |-> TRUE, instance |-> instance]

\* what the backend answers to a request: an HTTP status and a body with or
\* without a non-empty "data", or nothing at all (httpx.HTTPError)
Responses ==
    {[status |-> 200, data |-> TRUE], [status |-> 200, data |-> FALSE],
     [status |-> 403, data |-> FALSE], [status |-> 500, data |-> FALSE],
     [status |-> 0, data |-> FALSE]}

\* FrappeApiClient._request after the request was sent: the error raised for
\* the response, if any.  The text the backend or httpx adds to the message is
\* not modelled.
ResponseError(resp) ==
    IF resp.status = 0 THEN [ok |-> FALSE, error |-> Error("FrappeApiError", M_request_failed, PyNone)]
    ELSE IF resp.status >= 400
    THEN [ok |-> FALSE,
          error |-> Error("FrappeApiError", M_http \o IntText(resp.status), PyInt(resp.status))]
    ELSE [ok |-> TRUE, data |-> resp.data]

FilterTools ==
    {"list_documents", "count_documents", "run_query_report", "run_doctype_report",
     "get_report_columns"}

\* the operation name a tool passes to _format_error_response
OperationText(name) ==
    CASE name = "list_documents" ->
           <<"l", "i", "s", "t", "_", "d", "o", "c", "u", "m", "e", "n", "t", "s">>
      [] name = "count_documents" ->
           <<"c", "o", "u", "n", "t", "_", "d", "o", "c", "u", "m", "e", "n", "t", "s">>
      [] name = "run_query_report" ->
           <<"r", "u", "n", "_", "q", "u", "e", "r", "y", "_", "r", "e", "p", "o", "r", "t">>
      [] name = "run_doctype_report" ->
           <<"r", "u", "n", "_", "d", "o", "c", "t", "y", "p", "e", "_", "r", "e", "p", "o", "r", "t">>
      [] name = "get_report_columns" ->
           <<"g", "e", "t", "_", "r", "e", "p", "o", "r", "t", "_", "c", "o", "l", "u", "m", "n", "s">>

\* _format_error_response(error, operation): the text the tool returns
_format_error_response(error, operation, env) ==
    LET credentials_check == validate_api_credentials(env) IN
    IF ~credentials_check.valid
    THEN M_auth_failed \o credentials_check.message \o <<".", " ">> \o M_only_method
    ELSE IF error.exc = "FrappeApiError"
    THEN M_api_error \o error.msg
         \o (IF error.status_code \in {PyInt(401), PyInt(403)} THEN M_check_key ELSE <<>>)
    ELSE M_error_in \o OperationText(operation) \o <<":", " ">> \o error.msg

\* the request a filter tool sends: list_documents, count_documents and
\* run_doctype_report GET the resource with a filters parameter only for a
\* non-empty mapping; the report tools POST "filters": parsed_filters or {}
FilterRequest(name, parsed_filters) ==
    IF name \in {"run_query_report", "get_report_columns"}
    THEN [method |-> "POST",
          filters |-> IF parsed_filters = PyNone \/ parsed_filters.d = <<>>
                      THEN PyDict(<<>>) ELSE parsed_filters]
    ELSE [method |-> "GET",
          filters |-> IF parsed_filters = PyNone \/ parsed_filters.d = <<>>
                      THEN PyNone ELSE parsed_filters]

\* the end of a tool call: the text returned, the requests sent, the singleton
ToolEnd(t, text, sent, instance) ==
    [result |-> [t |-> t, text |-> text], sent |-> sent, instance |-> instance]

\* the text of count_documents with the raw argument tested, not the mapping
CountText_rawfilters(filters, parsed_filters, has_data) ==
    IF ~has_data THEN M_no_data_returned
    ELSE IF ~Falsy(filters) THEN M_matching_filters \o filters.s
    ELSE M_documents_total

\* the text count_documents returns for an answer: "Found {count} {doctype}"
\* is left out, what follows it is kept
CountText(filters, parsed_filters, has_data) ==
    IF ~has_data THEN M_no_data_returned
    ELSE IF ~(parsed_filters = PyNone \/ parsed_filters.d = <<>>)
    THEN M_matching_filters \o filters.s
    ELSE M_documents_total

\* the tool after its request was sent and answered; of the texts made of the
\* backend's data only that of count_documents is modelled
FilterTool_answered(name, filters, env, instance, parsed_filters, request, answer) ==
    IF ~answer.ok
    THEN ToolEnd("error", _format_error_response(answer.error, name, env), <<request>>, instance)
    ELSE IF name = "count_documents"
    THEN ToolEnd("data", CountText(filters, parsed_filters, answer.data), <<request>>, instance)
    ELSE ToolEnd("data", <<>>, <<request>>, instance)

\* the tool at "await client.get(...)" or "await client.post(...)": _request
\* takes the httpx client, which needs the credentials, and sends the request
FilterTool_request(name, filters, env, instance, resp, parsed_filters, opened) ==
    IF ~opened.ok
    THEN ToolEnd("error", _format_error_response(opened.error, name, env), <<>>, instance)
    ELSE FilterTool_answered(name, filters, env, opened.instance, parsed_filters,
                             FilterRequest(name, parsed_filters), ResponseError(resp))

\* the tool with the request sent before the parse failure is looked at
FilterTool_parsed_late(name, filters, env, instance, resp, parsed) ==
    IF parsed.kind = "raise"
    THEN ToolEnd("error",
                 _format_error_response(Error(parsed.exc, parsed.msg, PyNone), name, env),
                 <<FilterRequest(name, PyNone)>>, instance)
    ELSE FilterTool_request(name, filters, env, instance, resp, parsed.value,
                            _get_client(env, instance))

\* the tool after "parsed_filters = format_filters_for_api(filters)"
FilterTool_parsed(name, filters, env, instance, resp, parsed) ==
    IF parsed.kind = "raise"
    THEN ToolEnd("error",
                 _format_error_response(Error(parsed.exc, parsed.msg, PyNone), name, env),
                 <<>>, instance)
    ELSE FilterTool_request(name, filters, env, instance, resp, parsed.value,
                            _get_client(env, instance))

\* the tool after "client = get_client()"
FilterTool_client(name, filters, env, instance, resp, got) ==
    IF ~got.ok
    THEN ToolEnd("error", _format_error_response(got.error, name, env), <<>>, instance)
    ELSE FilterTool_parsed(name, filters, env, got.instance, resp,
                           format_filters_for_api(filters))

\* A tool that takes a filter argument, from "try: client = get_client()" to
\* its return.  A successful call ends with a result of kind "data".
FilterTool(name, filters, env, instance, resp) ==
    FilterTool_client(name, filters, env, instance, resp, get_client(env, instance))

\* the transports the command line accepts: choices=["stdio", "sse"]
CliChoices == {"stdio", "sse"}

\* the process once start_server has acted
Serving(transport) == [at |-> "serving", serving |-> transport, status |-> PyNone, stderr |-> "running"]
Exited(status, stderr) == [at |-> "exited", serving |-> "none", status |-> PyInt(status), stderr |-> stderr]

\* start_server(server, transport): serve, or print and sys.exit(1); runs is
\* whether server.run() gets to serve or raises
start_server(transport, runs) ==
    IF transport = "http"
    THEN IF runs THEN Serving("streamable-http") ELSE Exited(1, "Fatal error")
    ELSE IF transport = "stdio"
    THEN IF runs THEN Serving("stdio") ELSE Exited(1, "Fatal error")
    ELSE Exited(1, "Unsupported transport")

\* the process record of an entry point that got as far as start_server
Started(by, transport, env, end) ==
    [at |-> end.at, entry |-> by, transport |-> transport,
     credentials_valid |-> validate_api_credentials(env).valid,
     serving |-> end.serving, status |-> end.status, stderr |-> end.stderr]

\* what is written after the program's name
CommandLines ==
    {[version |-> TRUE, transport |-> "stdio"]}
    \cup {[version |-> FALSE, transport |-> t] : t \in {"stdio", "sse", "http"}}

\* run_server(): parse_args, the version flag, create_server, start_server
run_server(argv, env, runs) ==
    IF argv.transport \notin CliChoices
    THEN [NotStarted EXCEPT !.at = "exited", !.entry = "run_server",
                            !.transport = argv.transport,
                            !.status = PyInt(2), !.stderr = "invalid choice"]
    ELSE IF argv.version
    THEN [NotStarted EXCEPT !.at = "exited", !.entry = "run_server",
                            !.transport = argv.transport,
                            !.status = PyInt(0), !.stderr = "none"]
    ELSE Started("run_server", argv.transport, env, start_server(argv.transport, runs))

\* the values an environment variable takes: unset, empty, set
EnvValues == {Unset, PyStr(<<>>), PyStr(<<"v">>)}

Environments ==
    [FRAPPE_API_KEY : EnvValues, FRAPPE_API_SECRET : EnvValues, FRAPPE_BASE_URL : EnvValues]

\* the filter arguments the tools are called with
ToolArguments ==
    {[none |-> TRUE, cs |-> <<>>],
     [none |-> FALSE, cs |-> <<>>],
     [none |-> FALSE, cs |-> <<Clause("text", <<>>, <<>>, <<"z", "z">>)>>],
     [none |-> FALSE, cs |-> <<Clause("fv", <<"f">>, <<>>, <<"x">>)>>],
     [none |-> FALSE, cs |-> <<Clause("fov", <<"f">>, S_between, <<"1", "|", "2">>)>>],
     [none |-> FALSE, cs |-> <<Clause("fov", <<"f">>, S_between, <<"1">>)>>],
     [none |-> FALSE, cs |-> <<Clause("fv", <<"g">>, <<>>, <<"1">>),
                               Clause("fov", <<"f">>, <<"B", "e", "t", "w", "e", "e", "n">>,
                                      <<"1", "|", "2", "|", "x", " ">>)>>]}

InitServer ==
    /\ environ \in Environments
    /\ process = NotStarted
    /\ _client_instance = PyNone
    /\ auth = NoAuthCall
    /\ tool = NoToolCall
    /\ NoCall
    /\ NoCallers
    /\ NoAmending
    /\ NoClientUse
    /\ NoOptimizing
    /\ NoDocuments

\* validate_api_credentials() called on its own, as the tests do
Call_validate_api_credentials ==
    /\ process.at = "not started"
    /\ auth' = [fn |-> "validate_api_credentials",
                outcome |-> Return(validate_api_credentials(environ))]
    /\ UNCHANGED <<environ, process, _client_instance, tool>>
    /\ UNCHANGED outsideServer

\* get_api_credentials() called on its own
Call_get_api_credentials ==
    /\ process.at = "not started"
    /\ auth' = [fn |-> "get_api_credentials", outcome |-> get_api_credentials(environ)]
    /\ UNCHANGED <<environ, process, _client_instance, tool>>
    /\ UNCHANGED outsideServer

\* the program is run from the command line
RunServer ==
    /\ process.at = "not started"
    /\ \E argv \in CommandLines, runs \in BOOLEAN :
          process' = run_server(argv, environ, runs)
    /\ UNCHANGED <<environ, _client_instance, auth, tool>>
    /\ UNCHANGED outsideServer

\* create_server() and start_server(server, transport=...) called directly,
\* as the tests do
StartServer ==
    /\ process.at = "not started"
    /\ \E transport \in {"stdio", "sse", "http"}, runs \in BOOLEAN :
          process' = Started("start_server", transport, environ, start_server(transport, runs))
    /\ UNCHANGED <<environ, _client_instance, auth, tool>>
    /\ UNCHANGED outsideServer

\* SIGINT or SIGTERM: signal_handler exits with status 0
Signal ==
    /\ process.at = "serving"
    /\ process' = [process EXCEPT !.at = "exited", !.status = PyInt(0), !.stderr = "Shutting down"]
    /\ UNCHANGED <<environ, _client_instance, auth, tool>>
    /\ UNCHANGED outsideServer

\* the tool call has ended: its result goes to the client, the singleton stays
ToolEnded(name, cs, filters, end) ==
    /\ tool' = [name |-> name, clauses |-> cs, filters |-> filters,
                sent |-> end.sent, result |-> end.result]
    /\ _client_instance' = end.instance

\* a client calls a tool that takes a filter argument
CallFilterTool ==
    /\ process.at = "serving"
    /\ tool = NoToolCall
    /\ \E name \in FilterTools, arg \in ToolArguments, resp \in Responses :
          ToolEnded(name, arg.cs, ArgumentValue(arg),
                    FilterTool(name, ArgumentValue(arg), environ, _client_instance, resp))
    /\ UNCHANGED <<environ, process, auth>>
    /\ UNCHANGED outsideServer

\* the client has the result of its tool call
ToolResultTaken ==
    /\ tool # NoToolCall
    /\ tool' = NoToolCall
    /\ UNCHANGED <<environ, process, _client_instance, auth>>
    /\ UNCHANGED outsideServer

NextServer ==
    \/ Call_validate_api_credentials
    \/ Call_get_api_credentials
    \/ RunServer
    \/ StartServer
    \/ Signal
    \/ CallFilterTool
    \/ ToolResultTaken

SpecServer == InitServer /\ [][NextServer]_vars

----------------------------------------------------------------------------
(* The lifecycle tools of tools/documents.py: submit_document,             *)
(* cancel_document and amend_document, called by a client of a serving     *)
(* process.  The backend is a set of documents of one doctype, each with   *)
(* a docstatus (0 draft, 1 submitted, 2 cancelled; a document may also     *)
(* come back without one, or with another number) and an amended_from.     *)

\* s.rsplit(sep, 1) for a one-character sep
rsplit(s, sep) ==
    IF Contains(s, sep)
    THEN LET i == CHOOSE k \in 1..Len(s) : s[k] = sep /\ \A j \in (k + 1)..Len(s) : s[j] # sep
         IN <<SubSeq(s, 1, i - 1), SubSeq(s, i + 1, Len(s))>>
    ELSE <<s>>

\* s.isdigit() for ASCII text
isdigit(s) == s # <<>> /\ \A i \in 1..Len(s) : s[i] \in Digits

\* f"{base_name}-{amended_counter}"
AmendedName(base_name, amended_counter) == base_name \o <<"-">> \o NatText(amended_counter)

\* "Generate amended document name": base_name and amended_counter before
\* the search for a free name
FirstCandidate(name) ==
    IF Contains(name, "-") /\ Len(rsplit(name, "-")) = 2 /\ isdigit(rsplit(name, "-")[2])
    THEN [base_name |-> rsplit(name, "-")[1],
          amended_counter |-> DigitsValue(rsplit(name, "-")[2], 0) + 1]
    ELSE [base_name |-> name, amended_counter |-> 1]

\* "Find the next available amended name": the first counter from
\* amended_counter on whose name the backend does not have
RECURSIVE NextAvailable(_, _, _)
NextAvailable(base_name, amended_counter, docs) ==
    IF AmendedName(base_name, amended_counter) \in DOMAIN docs
    THEN NextAvailable(base_name, amended_counter + 1, docs)
    ELSE amended_counter

\* the names the search asks the backend for, in order
RECURSIVE Probes(_, _, _)
Probes(base_name, amended_counter, docs) ==
    <<[method |-> "GET", name |-> AmendedName(base_name, amended_counter), action |-> "none"]>>
    \o (IF AmendedName(base_name, amended_counter) \in DOMAIN docs
        THEN Probes(base_name, amended_counter + 1, docs)
        ELSE <<>>)

LifecycleTools == {"submit_document", "cancel_document", "amend_document"}

\* the checks of submit_document without the test for an unexpected status
DocstatusCheck_known(tool_name, current_docstatus) ==
    IF current_docstatus = PyNone THEN "could not retrieve"
    ELSE IF tool_name = "submit_document" THEN
        IF current_docstatus = PyInt(1) THEN "already submitted"
        ELSE IF current_docstatus = PyInt(2) THEN "cancelled"
        ELSE "proceed"
    ELSE IF tool_name = "cancel_document" THEN
        IF current_docstatus = PyInt(0) THEN "draft"
        ELSE IF current_docstatus = PyInt(2) THEN "already cancelled"
        ELSE "proceed"
    ELSE
        IF current_docstatus = PyInt(0) THEN "draft"
        ELSE IF current_docstatus = PyInt(1) THEN "submitted"
        ELSE "proceed"

\* the tests on current_docstatus after the fetch: the message the tool
\* returns, or "proceed"
DocstatusCheck(tool_name, current_docstatus) ==
    IF current_docstatus = PyNone THEN "could not retrieve"
    ELSE IF tool_name = "submit_document" THEN
        IF current_docstatus = PyInt(1) THEN "already submitted"
        ELSE IF current_docstatus = PyInt(2) THEN "cancelled"
        ELSE IF current_docstatus # PyInt(0) THEN "unexpected status"
        ELSE "proceed"
    ELSE IF tool_name = "cancel_document" THEN
        IF current_docstatus = PyInt(0) THEN "draft"
        ELSE IF current_docstatus = PyInt(2) THEN "already cancelled"
        ELSE IF current_docstatus # PyInt(1) THEN "unexpected status"
        ELSE "proceed"
    ELSE
        IF current_docstatus = PyInt(0) THEN "draft"
        ELSE IF current_docstatus = PyInt(1) THEN "submitted"
        ELSE IF current_docstatus # PyInt(2) THEN "unexpected status"
        ELSE "proceed"

\* a request of a lifecycle tool
Get(name) == [method |-> "GET", name |-> name, action |-> "none"]
Post(name, action) == [method |-> "POST", name |-> name, action |-> action]

\* the backend with document name at docstatus d
WithDocstatus(docs, name, d) == [docs EXCEPT ![name].docstatus = PyInt(d)]

\* the backend with the new draft name, amended from the document from
WithAmendment(docs, name, from) ==
    [n \in DOMAIN docs \cup {name} |->
        IF n = name THEN [docstatus |-> PyInt(0), amended_from |-> PyStr(from)] ELSE docs[n]]

\* the end of a lifecycle tool call: the message returned, the requests
\* sent, the singleton and the backend
LifecycleEnd(result, sent, instance, docs) ==
    [result |-> result, sent |-> sent, instance |-> instance, docs |-> docs]

\* submit_document and cancel_document from "Prepare document for ..." on:
\* the POST of savedocs, which the backend carries out or refuses
SaveDocs(tool_name, name, instance, docs, accepts) ==
    IF tool_name = "submit_document"
    THEN LifecycleEnd(IF accepts THEN "done" ELSE "failed",
                      <<Get(name), Post(name, "Submit")>>, instance,
                      IF accepts THEN WithDocstatus(docs, name, 1) ELSE docs)
    ELSE LifecycleEnd(IF accepts THEN "done" ELSE "failed",
                      <<Get(name), Post(name, "Cancel")>>, instance,
                      IF accepts THEN WithDocstatus(docs, name, 2) ELSE docs)

\* amend_document from "Find the next available amended name" on: the
\* search, which a failing request ends, and the POST of the new document
CreateAmended(name, first, instance, docs, net, accepts) ==
    IF net = "probe down"
    THEN LifecycleEnd("failed", <<Get(name), Get(AmendedName(first.base_name, first.amended_counter))>>,
                      instance, docs)
    ELSE LifecycleEnd(IF accepts THEN "done" ELSE "failed",
                      <<Get(name)>> \o Probes(first.base_name, first.amended_counter, docs)
                      \o <<Post(AmendedName(first.base_name,
                                            NextAvailable(first.base_name, first.amended_counter, docs)),
                                "create")>>,
                      instance,
                      IF accepts
                      THEN WithAmendment(docs,
                                         AmendedName(first.base_name,
                                                     NextAvailable(first.base_name,
                                                                   first.amended_counter, docs)),
                                         name)
                      ELSE docs)

\* the tool after the fetch gave doc_data
Lifecycle_fetched(tool_name, name, instance, docs, net, accepts, check) ==
    IF check # "proceed"
    THEN LifecycleEnd(check, <<Get(name)>>, instance, docs)
    ELSE IF tool_name = "amend_document"
    THEN CreateAmended(name, FirstCandidate(name), instance, docs, net, accepts)
    ELSE SaveDocs(tool_name, name, instance, docs, accepts)

\* the tool at "doc_response = await client.get(...)": the httpx client
\* needs the credentials; the request fails, finds no document, or gives it
Lifecycle_get(tool_name, name, instance, docs, net, accepts, opened) ==
    IF ~opened.ok
    THEN LifecycleEnd("error retrieving", <<>>, instance, docs)
    ELSE IF net = "fetch down" \/ name \notin DOMAIN docs
    THEN LifecycleEnd("error retrieving", <<Get(name)>>, opened.instance, docs)
    ELSE Lifecycle_fetched(tool_name, name, opened.instance, docs, net, accepts,
                           DocstatusCheck(tool_name, docs[name].docstatus))

\* the tool after "client = get_client()"
Lifecycle_client(tool_name, name, env, instance, docs, net, accepts, got) ==
    IF ~got.ok
    THEN LifecycleEnd("error", <<>>, instance, docs)
    ELSE Lifecycle_get(tool_name, name, got.instance, docs, net, accepts,
                       _get_client(env, got.instance))

\* submit_document, cancel_document or amend_document, from
\* "client = get_client()" to its return
Lifecycle(tool_name, name, env, instance, docs, net, accepts) ==
    Lifecycle_client(tool_name, name, env, instance, docs, net, accepts,
                     get_client(env, instance))

DOC_001 == <<"D", "O", "C", "-", "0", "0", "1">>
DOC_001_1 == <<"D", "O", "C", "-", "0", "0", "1", "-", "1">>
INV == <<"I", "N", "V">>
MISSING == <<"N", "O", "N", "E">>

\* the docstatus a document comes back with: none, draft, submitted,
\* cancelled, or a number that is none of these
Docstatuses == {PyNone, PyInt(0), PyInt(1), PyInt(2), PyInt(3)}

Original(d) == [docstatus |-> d, amended_from |-> PyNone]

\* the documents the backend starts with: the originals DOC-001 and INV, and
\* possibly the first amendment of a cancelled DOC-001
InitialDocuments ==
    {[n \in {DOC_001, INV} |-> IF n = DOC_001 THEN Original(d) ELSE Original(e)] :
        d \in Docstatuses, e \in {PyInt(0), PyInt(2)}}
    \cup
    {[n \in {DOC_001, DOC_001_1} |->
        IF n = DOC_001 THEN Original(PyInt(2))
        ELSE [docstatus |-> d, amended_from |-> PyStr(DOC_001)]] : d \in {PyInt(0), PyInt(1), PyInt(2)}}

\* the most documents the backend holds
MaxDocuments == 4

\* the environments of the lifecycle calls: each variable unset or set
LifecycleEnvironments ==
    {[FRAPPE_API_KEY |-> k, FRAPPE_API_SECRET |-> PyStr(<<"v">>), FRAPPE_BASE_URL |-> u] :
        k \in {Unset, PyStr(<<"v">>)}, u \in {Unset, PyStr(<<"v">>)}}

InitLifecycle ==
    /\ documents \in InitialDocuments
    /\ lifecycle = NoLifecycleCall
    /\ deletion = NoDeleteCall
    /\ environ \in LifecycleEnvironments
    /\ process = Started("run_server", "stdio", environ, Serving("stdio"))
    /\ _client_instance = PyNone
    /\ auth = NoAuthCall
    /\ tool = NoToolCall
    /\ NoCall
    /\ NoCallers
    /\ NoAmending
    /\ NoClientUse
    /\ NoOptimizing

\* the tool call has ended: the message goes to the client, the backend and
\* the singleton stay
LifecycleEnded(tool_name, name, net, end) ==
    /\ lifecycle' = [tool |-> tool_name, name |-> name, net |-> net,
                     found |-> name \in DOMAIN documents,
                     doc |-> IF name \in DOMAIN documents THEN documents[name] ELSE Original(PyNone),
                     sent |-> end.sent, result |-> end.result]
    /\ documents' = end.docs
    /\ _client_instance' = end.instance

\* a client calls submit_document, cancel_document or amend_document
CallLifecycleTool ==
    /\ process.at = "serving"
    /\ lifecycle = NoLifecycleCall
    /\ deletion = NoDeleteCall
    /\ \E tool_name \in LifecycleTools, name \in DOMAIN documents \cup {MISSING},
          net \in {"up", "fetch down", "probe down"}, accepts \in BOOLEAN :
          /\ accepts /\ tool_name = "amend_document" => Cardinality(DOMAIN documents) < MaxDocuments
          /\ net = "probe down" => tool_name = "amend_document"
          /\ LifecycleEnded(tool_name, name, net,
                            Lifecycle(tool_name, name, environ, _client_instance, documents,
                                      net, accepts))
    /\ UNCHANGED <<environ, process, auth, tool, deletion>>
    /\ UNCHANGED outsideLifecycle

\* the client has the result of its lifecycle call
LifecycleResultTaken ==
    /\ lifecycle # NoLifecycleCall
    /\ lifecycle' = NoLifecycleCall
    /\ UNCHANGED <<documents, deletion>>
    /\ UNCHANGED serverVars
    /\ UNCHANGED outsideLifecycle

\* the tests of delete_document with a cancelled document turned away too
DeleteCheck_draftonly(current_docstatus) ==
    IF current_docstatus = PyNone THEN "could not retrieve"
    ELSE IF current_docstatus = PyInt(1) THEN "submitted"
    ELSE IF current_docstatus = PyInt(2) THEN "cancelled"
    ELSE "proceed"

\* the tests of delete_document on current_docstatus: the message it
\* returns, or "proceed" (docstatus 2, 0 and any other number fall through)
DeleteCheck(current_docstatus) ==
    IF current_docstatus = PyNone THEN "could not retrieve"
    ELSE IF current_docstatus = PyInt(1) THEN "submitted"
    ELSE "proceed"

Delete(name) == [method |-> "DELETE", name |-> name, action |-> "none"]

\* some document is amended from the document name
Linked(docs, name) == \E n \in DOMAIN docs : docs[n].amended_from = PyStr(name)

\* the backend without the document name
Without(docs, name) == [n \in DOMAIN docs \ {name} |-> docs[n]]

\* delete_document at "Attempt to delete the document": the DELETE, which
\* the backend carries out for a document it has and nothing links to
DeleteAttempt(name, instance, docs, sent, accepts) ==
    IF accepts /\ name \in DOMAIN docs /\ ~Linked(docs, name)
    THEN LifecycleEnd("done", Append(sent, Delete(name)), instance, Without(docs, name))
    ELSE LifecycleEnd("failed", Append(sent, Delete(name)), instance, docs)

\* delete_document after the fetch gave doc_data
Delete_fetched(name, instance, docs, accepts, check) ==
    IF check # "proceed"
    THEN LifecycleEnd(check, <<Get(name)>>, instance, docs)
    ELSE DeleteAttempt(name, instance, docs, <<Get(name)>>, accepts)

\* delete_document at "doc_response = await client.get(...)": an exception
\* of the fetch is passed over; without credentials client.delete raises too
Delete_get(name, instance, docs, net, accepts, opened) ==
    IF ~opened.ok
    THEN LifecycleEnd("error", <<>>, instance, docs)
    ELSE IF net = "fetch down" \/ name \notin DOMAIN docs
    THEN DeleteAttempt(name, opened.instance, docs, <<Get(name)>>, accepts)
    ELSE Delete_fetched(name, opened.instance, docs, accepts, DeleteCheck(docs[name].docstatus))

\* delete_document after "client = get_client()"
Delete_client(name, env, instance, docs, net, accepts, got) ==
    IF ~got.ok
    THEN LifecycleEnd("error", <<>>, instance, docs)
    ELSE Delete_get(name, got.instance, docs, net, accepts, _get_client(env, got.instance))

\* delete_document, from "client = get_client()" to its return
delete_document(name, env, instance, docs, net, accepts) ==
    Delete_client(name, env, instance, docs, net, accepts, get_client(env, instance))

\* the call of delete_document has ended
DeleteEnded(name, net, end) ==
    /\ deletion' = [name |-> name, net |-> net,
                    found |-> name \in DOMAIN documents,
                    doc |-> IF name \in DOMAIN documents THEN documents[name] ELSE Original(PyNone),
                    sent |-> end.sent, result |-> end.result]
    /\ documents' = end.docs
    /\ _client_instance' = end.instance

\* a client calls delete_document
CallDeleteDocument ==
    /\ process.at = "serving"
    /\ lifecycle = NoLifecycleCall
    /\ deletion = NoDeleteCall
    /\ \E name \in DOMAIN documents \cup {MISSING}, net \in {"up", "fetch down"},
          accepts \in BOOLEAN :
          DeleteEnded(name, net,
                      delete_document(name, environ, _client_instance, documents, net, accepts))
    /\ UNCHANGED <<environ, process, auth, tool, lifecycle>>
    /\ UNCHANGED outsideLifecycle

\* the client has the result of its call of delete_document
DeleteResultTaken ==
    /\ deletion # NoDeleteCall
    /\ deletion' = NoDeleteCall
    /\ UNCHANGED <<documents, lifecycle>>
    /\ UNCHANGED serverVars
    /\ UNCHANGED outsideLifecycle

NextLifecycle ==
    \/ CallLifecycleTool
    \/ LifecycleResultTaken
    \/ CallDeleteDocument
    \/ DeleteResultTaken

SpecLifecycle == InitLifecycle /\ [][NextLifecycle]_vars

----------------------------------------------------------------------------
(* _optimize_range_filters called on its own, on a mapping with one field   *)
(* whose value is a list of predicates or a single value.  A predicate is  *)
(* described by its kind (a >= bound, a <= bound, another predicate) and   *)
(* the Python value that stands for it.                                    *)

Bound(kind, op, n) == [kind |-> kind, cond |-> PyList(<<PyStr(op), PyInt(n)>>)]
Other(cond) == [kind |-> "other", cond |-> cond]

\* the predicates a field's list is made of
ListedPredicates ==
    {Bound("gte", S_gte, 1), Bound("gte", S_gte, 5),
     Bound("lte", S_lte, 2), Bound("lte", S_lte, 7),
     Other(PyList(<<PyStr(<<">">>), PyInt(3)>>)),
     Other(PyStr(<<"x">>)),
     Other(PyList(<<PyStr(S_in), PyList(<<PyInt(1), PyInt(2)>>)>>))}

\* the values a field holds when it has one predicate: a bare value, an
\* [op, value] pair, an in or between predicate over two values
SinglePredicates ==
    ListedPredicates
    \cup {Other(PyInt(1)), Other(PyBool(TRUE)),
          Other(PyList(<<PyStr(S_between), PyList(<<PyInt(1), PyInt(2)>>)>>)),
          Other(PyList(<<PyStr(S_in), PyList(<<PyStr(S_gte), PyInt(1)>>)>>)),
          Other(PyList(<<PyStr(S_in), PyList(<<PyStr(S_lte), PyStr(S_gte)>>)>>))}

\* the longest list of predicates of a field
MaxConditions == 4

\* the mapping {"g": 1, "f": value}
OneField(value) == <<[k |-> <<"g">>, v |-> PyInt(1)], [k |-> <<"f">>, v |-> value]>>

\* the list value made of the predicates ps
Listed(ps) == PyList([n \in 1..Len(ps) |-> ps[n].cond])

InitOptimize ==
    /\ optimizing = NoOptimizeCall
    /\ NoCall
    /\ NoCallers
    /\ NoAmending
    /\ NoClientUse
    /\ NoServer
    /\ NoDocuments

\* _optimize_range_filters(filters_dict) for a field holding a list
Call__optimize_range_filters_on_list ==
    /\ optimizing.at = "idle"
    /\ \E n \in 2..MaxConditions : \E ps \in [1..n -> ListedPredicates] :
          optimizing' = [at |-> "done", parts |-> ps, listed |-> TRUE,
                         arg |-> OneField(Listed(ps)),
                         result |-> _optimize_range_filters(OneField(Listed(ps)))]
    /\ UNCHANGED outsideOptimize

\* _optimize_range_filters(filters_dict) for a field holding a single value
Call__optimize_range_filters_on_single ==
    /\ optimizing.at = "idle"
    /\ \E q \in SinglePredicates :
          optimizing' = [at |-> "done", parts |-> <<q>>, listed |-> FALSE,
                         arg |-> OneField(q.cond),
                         result |-> _optimize_range_filters(OneField(q.cond))]
    /\ UNCHANGED outsideOptimize

\* the caller has the optimized mapping
OptimizedTaken ==
    /\ optimizing.at = "done"
    /\ optimizing' = NoOptimizeCall
    /\ UNCHANGED outsideOptimize

NextOptimize ==
    \/ Call__optimize_range_filters_on_list
    \/ Call__optimize_range_filters_on_single
    \/ OptimizedTaken

SpecOptimize == InitOptimize /\ [][NextOptimize]_vars

----------------------------------------------------------------------------
(* Requests and close() calls interleaved on the one FrappeApiClient that   *)
(* get_client() hands to every tool (frappe_api.py).  asyncio switches      *)
(* coroutines only at an await that suspends: in _request that is the wait  *)
(* for the response inside client.request, in close() the wait inside       *)
(* self._client.aclose().  _get_client has no await of its own.             *)

\* the httpx clients one run makes at most
MaxHttpClients == 3

\* FrappeApiClient._get_client(): self._client, made first when it is None
HttpClientOf(self, made) ==
    IF self._client = PyNone
    THEN [self |-> [self EXCEPT !._client = PyInt(Len(made) + 1)], made |-> Append(made, "open")]
    ELSE [self |-> self, made |-> made]

\* _request up to the wait inside client.request: the request is made on the
\* client _get_client returned; httpx refuses it on a client already closed
RequestStarted(got) ==
    [op |-> "request",
     at |-> IF got.made[got.self._client.i] = "closed" THEN "raised" ELSE "awaiting",
     client |-> got.self._client.i,
     aclosed |-> got.made[got.self._client.i] = "closed"]

InitClient ==
    /\ NoClientUse
    /\ NoAmending
    /\ NoCall
    /\ NoCallers
    /\ NoAmending
    /\ NoOptimizing
    /\ NoServer
    /\ NoDocuments

\* the coroutine t has its client and request at hand
RequestBegun(t, got) ==
    /\ shared_client' = got.self
    /\ httpx_clients' = got.made
    /\ coroutines' = [coroutines EXCEPT ![t] = RequestStarted(got)]

\* a tool calls client.get/post/put/delete: _request runs to its first wait
Call__request(t) ==
    /\ coroutines[t].at = "idle"
    /\ shared_client._client = PyNone => Len(httpx_clients) < MaxHttpClients
    /\ RequestBegun(t, HttpClientOf(shared_client, httpx_clients))
    /\ UNCHANGED outsideClient

\* the wait inside client.request ends: a response, or an error of httpx
RequestAnswered(t) ==
    /\ coroutines[t].at = "awaiting"
    /\ \E answered \in BOOLEAN :
          coroutines' = [coroutines EXCEPT ![t].at = IF answered THEN "returned" ELSE "raised"]
    /\ UNCHANGED <<shared_client, httpx_clients>>
    /\ UNCHANGED outsideClient

\* close() up to the wait inside aclose(): aclose() marks the client closed
Call_close(t) ==
    /\ coroutines[t].at = "idle"
    /\ IF shared_client._client = PyNone
       THEN /\ coroutines' = [coroutines EXCEPT ![t] = [Idle EXCEPT !.op = "close", !.at = "returned"]]
            /\ UNCHANGED httpx_clients
       ELSE /\ httpx_clients' = [httpx_clients EXCEPT ![shared_client._client.i] = "closed"]
            /\ coroutines' = [coroutines EXCEPT ![t] =
                                 [op |-> "close", at |-> "closing",
                                  client |-> shared_client._client.i, aclosed |-> TRUE]]
    /\ UNCHANGED shared_client
    /\ UNCHANGED outsideClient

\* close() after "await self._client.aclose()": self._client = None
CloseEnded(t) ==
    /\ coroutines[t].at = "closing"
    /\ shared_client' = [shared_client EXCEPT !._client = PyNone]
    /\ coroutines' = [coroutines EXCEPT ![t].at = "returned"]
    /\ UNCHANGED httpx_clients
    /\ UNCHANGED outsideClient

\* the caller of the coroutine has its result or its exception
CoroutineDone(t) ==
    /\ coroutines[t].at \in {"returned", "raised"}
    /\ coroutines' = [coroutines EXCEPT ![t] = Idle]
    /\ UNCHANGED <<shared_client, httpx_clients>>
    /\ UNCHANGED outsideClient

NextClient ==
    \E t \in Tasks :
        \/ Call__request(t)
        \/ RequestAnswered(t)
        \/ Call_close(t)
        \/ CloseEnded(t)
        \/ CoroutineDone(t)

SpecClient == InitClient /\ [][NextClient]_vars

----------------------------------------------------------------------------
(* The search of amend_document for a free amended name, one step for each *)
(* request it waits for (documents.py 806-866).  It starts once the fetch   *)
(* has given a cancelled document.                                          *)

\* the names base-k at the backend have counters up to MaxExisting
MaxExisting == 4

\* the documents that are amended
AmendedDocuments == {DOC_001, DOC_001_1, INV}

\* what the backend may answer to the lookup of a name: the document (a
\* response with "data") only if it has it, 404 or a response without "data"
\* only if it has not, another status or no response at any time
LookupResponses(name, existing) ==
    IF name \in existing
    THEN {[status |-> 200, data |-> TRUE], [status |-> 500, data |-> FALSE],
          [status |-> 0, data |-> FALSE]}
    ELSE {[status |-> 200, data |-> FALSE], [status |-> 404, data |-> FALSE],
          [status |-> 500, data |-> FALSE], [status |-> 0, data |-> FALSE]}

\* amend_document at "Generate amended document name"
SearchFrom(name, existing, first) ==
    [at |-> "searching", name |-> name, existing |-> existing,
     base_name |-> first.base_name, start |-> first.amended_counter,
     amended_counter |-> first.amended_counter,
     amended_name |-> AmendedName(first.base_name, first.amended_counter),
     answers |-> <<>>, sent |-> <<>>]

\* the search with a 404 raised again like any other error
SearchStep_reraise(search, resp, answer) ==
    IF answer.ok /\ resp.data
    THEN [search EXCEPT !.amended_counter = @ + 1,
                        !.amended_name = AmendedName(search.base_name, search.amended_counter + 1),
                        !.answers = Append(@, resp),
                        !.sent = Append(@, Get(search.amended_name))]
    ELSE IF answer.ok
    THEN [search EXCEPT !.at = "creating",
                        !.answers = Append(@, resp),
                        !.sent = @ \o <<Get(search.amended_name), Post(search.amended_name, "create")>>]
    ELSE [search EXCEPT !.at = "aborted",
                        !.answers = Append(@, resp),
                        !.sent = Append(@, Get(search.amended_name))]

\* one turn of "while True": the lookup of amended_name was answered.  With
\* "data" in the response the counter goes up; without it, or with a 404,
\* the loop is left and the document is posted under amended_name; another
\* FrappeApiError is raised again and ends the tool.
SearchStep(search, resp, answer) ==
    IF answer.ok /\ resp.data
    THEN [search EXCEPT !.amended_counter = @ + 1,
                        !.amended_name = AmendedName(search.base_name, search.amended_counter + 1),
                        !.answers = Append(@, resp),
                        !.sent = Append(@, Get(search.amended_name))]
    ELSE IF answer.ok \/ answer.error.status_code = PyInt(404)
    THEN [search EXCEPT !.at = "creating",
                        !.answers = Append(@, resp),
                        !.sent = @ \o <<Get(search.amended_name), Post(search.amended_name, "create")>>]
    ELSE [search EXCEPT !.at = "aborted",
                        !.answers = Append(@, resp),
                        !.sent = Append(@, Get(search.amended_name))]

InitSearch ==
    /\ amending = NoSearch
    /\ NoCall
    /\ NoCallers
    /\ NoOptimizing
    /\ NoClientUse
    /\ NoServer
    /\ NoDocuments

\* amend_document has fetched a cancelled document and starts its search
StartSearch ==
    /\ amending.at = "idle"
    /\ \E name \in AmendedDocuments, counters \in SUBSET (1..MaxExisting) :
          amending' = SearchFrom(name,
                                 {AmendedName(FirstCandidate(name).base_name, k) : k \in counters},
                                 FirstCandidate(name))
    /\ UNCHANGED outsideSearch

\* the lookup of amended_name is answered
Lookup ==
    /\ amending.at = "searching"
    /\ \E resp \in LookupResponses(amending.amended_name, amending.existing) :
          amending' = SearchStep(amending, resp, ResponseError(resp))
    /\ UNCHANGED outsideSearch

\* the create request is answered: the tool returns
Created ==
    /\ amending.at = "creating"
    /\ amending' = [amending EXCEPT !.at = "ended"]
    /\ UNCHANGED outsideSearch

\* the client has the result of its call
SearchTaken ==
    /\ amending.at \in {"ended", "aborted"}
    /\ amending' = NoSearch
    /\ UNCHANGED outsideSearch

NextSearch ==
    \/ StartSearch
    \/ Lookup
    \/ Created
    \/ SearchTaken

\* every request of the client is answered or fails: httpx.Timeout(30.0)
SpecSearch == InitSearch /\ [][NextSearch]_vars /\ WF_vars(Lookup) /\ WF_vars(Created)

----------------------------------------------------------------------------
(* What the caller wrote, read off the clauses rather than off the parse   *)

\* s without its trailing whitespace
RECURSIVE TrimRight(_)
TrimRight(s) ==
    IF s # <<>> /\ s[Len(s)] \in Whitespace THEN TrimRight(SubSeq(s, 1, Len(s) - 1)) ELSE s

HasColon(c) == c.shape # "text"
FieldName(c) == Strip(c.f)
OperatorText(c) == Strip(c.o)
\* the value of the trimmed clause: the clause ends with it
ValueText(c) == TrimRight(c.v)

\* no colon, an empty field name, or no value
Malformed(c) == c.shape = "text" \/ FieldName(c) = <<>> \/ ValueText(c) = <<>>
WellFormed(c) == ~Malformed(c)

\* a between clause whose value has not exactly two |-separated tokens
BadBetween(c) ==
    /\ c.shape = "fov"
    /\ Lower(OperatorText(c)) = S_between
    /\ Len(Split(ValueText(c), "|", -1)) # 2

AnyBadBetween(cs) == \E i \in 1..Len(cs) : BadBetween(cs[i])
FirstBadBetween(cs) ==
    CHOOSE i \in 1..Len(cs) : BadBetween(cs[i]) /\ \A j \in 1..(i - 1) : ~BadBetween(cs[j])

\* the positions of the clauses that name field f
ClausesOn(cs, f) == {i \in 1..Len(cs) : HasColon(cs[i]) /\ FieldName(cs[i]) = f}

EndsWith(s, tail) ==
    Len(tail) <= Len(s) /\ SubSeq(s, Len(s) - Len(tail) + 1, Len(s)) = tail

\* a call on a string has ended
CalledOnString == pc = "done" /\ filter_str # PyNone
ReturnedDict == outcome.kind = "return" /\ outcome.value.t = "dict"

SpecialOperators == {S_in, S_not_in, S_between, S_is, S_is_not, S_not_like}

\* the predicate the filter syntax gives a well-formed clause
ClausePredicate(c) ==
    IF c.shape = "fv" THEN _convert_value(ValueText(c))
    ELSE FilterCondition(OperatorText(c), ValueText(c)).cond

----------------------------------------------------------------------------
(* C1 *)

\* the clauses on f are exactly clause i, f:>=:a, and clause j, f:<=:b
RangePairOn(cs, f, i, j) ==
    /\ ClausesOn(cs, f) = {i, j}
    /\ i # j
    /\ cs[i].shape = "fov" /\ OperatorText(cs[i]) = S_gte
    /\ cs[j].shape = "fov" /\ OperatorText(cs[j]) = S_lte

----------------------------------------------------------------------------
(* C2 *)

\* C2: a between clause whose value does not split on "|" into exactly two
\* tokens makes the call raise a ValueError whose message ends with the
\* value string of the (first) such clause, whatever the other clauses are
\* and wherever the clause stands; no mapping is returned.
C2_BadBetweenRaises ==
    (CalledOnString /\ AnyBadBetween(clauses)) =>
        /\ outcome.kind = "raise"
        /\ outcome.exc = "ValueError"
        /\ EndsWith(outcome.msg, ValueText(clauses[FirstBadBetween(clauses)]))
        /\ Len(outcome.msg) > Len(ValueText(clauses[FirstBadBetween(clauses)]))

\* the bad between clause comes last, after two well-formed clauses
C2_Witness ==
    /\ CalledOnString
    /\ Len(clauses) = 3
    /\ WellFormed(clauses[1]) /\ WellFormed(clauses[2])
    /\ ~BadBetween(clauses[1]) /\ ~BadBetween(clauses[2])
    /\ BadBetween(clauses[3])
    /\ outcome.kind = "raise"

----------------------------------------------------------------------------
(* C3 *)

\* C3: a malformed clause (no colon, empty field name, no value) adds
\* nothing and raises nothing: every key of the returned mapping is a
\* non-empty field name of some well-formed clause, and the mapping is the
\* one parsed from the well-formed clauses alone.
C3_MalformedClausesDropped ==
    (CalledOnString /\ ~AnyBadBetween(clauses)) =>
        /\ outcome.kind = "return"
        /\ outcome.value.t = "dict" =>
            /\ \A n \in 1..Len(outcome.value.d) :
                  /\ outcome.value.d[n].k # <<>>
                  /\ \E i \in 1..Len(clauses) :
                        WellFormed(clauses[i]) /\ FieldName(clauses[i]) = outcome.value.d[n].k
            /\ outcome = parse_filter_string(PyStr(Render(SelectSeq(clauses, WellFormed))))

----------------------------------------------------------------------------
(* C4 *)

\* the clauses of cs on field f, in order
ClauseSeqOn(cs, f) ==
    LET OnF(c) == HasColon(c) /\ FieldName(c) = f IN SelectSeq(cs, OnF)

HasRangePair(cs) ==
    /\ \E i \in 1..Len(cs) : cs[i].shape = "fov" /\ OperatorText(cs[i]) = S_gte
    /\ \E i \in 1..Len(cs) : cs[i].shape = "fov" /\ OperatorText(cs[i]) = S_lte

\* C4: when n >= 2 well-formed clauses name the same field and no >=/<= pair
\* is among them, the field's value is the flat list of the n predicates in
\* clause order.
C4_FlatPredicateList ==
    (CalledOnString /\ ~AnyBadBetween(clauses)) =>
        \A i \in 1..Len(clauses) :
            LET on == ClauseSeqOn(clauses, FieldName(clauses[i])) IN
            (/\ HasColon(clauses[i])
             /\ Len(on) >= 2
             /\ \A n \in 1..Len(on) : WellFormed(on[n])
             /\ ~HasRangePair(on)) =>
                /\ ReturnedDict
                /\ DictHas(outcome.value.d, FieldName(clauses[i]))
                /\ DictGet(outcome.value.d, FieldName(clauses[i])) =
                      PyList([n \in 1..Len(on) |-> ClausePredicate(on[n])])

----------------------------------------------------------------------------
(* C5 *)

EmptyArgument ==
    /\ entry \in {"format_filters_for_api", "parse_filter_string"}
    /\ filter_str = PyNone \/ filter_str = PyStr(<<>>)

\* C5 as claimed: None and "" give None through format_filters_for_api and
\* through parse_filter_string.
C5_EmptyGivesNoneEverywhere ==
    (pc = "done" /\ EmptyArgument) => outcome = Return(PyNone)

\* C5 as amended: format_filters_for_api returns None for None and for "";
\* parse_filter_string returns the empty mapping for "" and raises on None.
C5_EmptyGivesNoneAtBoundary ==
    (pc = "done" /\ EmptyArgument) =>
        IF entry = "format_filters_for_api" THEN outcome = Return(PyNone)
        ELSE IF filter_str = PyNone THEN outcome.kind = "raise" /\ outcome.exc = "AttributeError"
        ELSE outcome = Return(PyDict(<<>>))

C5_Witness ==
    /\ pc = "done"
    /\ entry = "format_filters_for_api"
    /\ filter_str = PyStr(<<>>)
    /\ outcome = Return(PyNone)

----------------------------------------------------------------------------
(* C6 *)

\* a non-empty string none of whose clauses has a colon
NothingToParse ==
    /\ CalledOnString
    /\ filter_str.s # <<>>
    /\ \A i \in 1..Len(clauses) : ~HasColon(clauses[i])

\* C6 as claimed: a non-empty string in which no clause produces an entry
\* parses to None.
C6_NoEntryGivesNone == NothingToParse => outcome = Return(PyNone)

\* C6 as amended: such a string parses to the empty mapping, not to None.
C6_NoEntryGivesEmptyDict == NothingToParse => outcome = Return(PyDict(<<>>))

\* only commas and whitespace, through the boundary function
C6_Witness ==
    /\ NothingToParse
    /\ entry = "format_filters_for_api"
    /\ Len(clauses) = 2
    /\ \A i \in 1..Len(filter_str.s) : filter_str.s[i] \in Whitespace \cup {","}
    /\ outcome = Return(PyDict(<<>>))

----------------------------------------------------------------------------
(* C7 *)

\* C7: a single well-formed clause field:value parses to the one-entry
\* mapping {field: coerce(value)}, the bare coerced value.
C7_SingleEqualityClause ==
    (/\ CalledOnString
     /\ Len(clauses) = 1
     /\ clauses[1].shape = "fv"
     /\ WellFormed(clauses[1])) =>
        outcome = Return(PyDict(<<[k |-> FieldName(clauses[1]),
                                   v |-> _convert_value(clauses[1].v)]>>))

\* " g :1.5" gives {"g": 1.5}
C7_Witness ==
    /\ CalledOnString
    /\ Len(clauses) = 1
    /\ clauses[1].shape = "fv"
    /\ clauses[1].f = <<" ", "g", " ">>
    /\ ReturnedDict
    /\ outcome.value.d = <<[k |-> <<"g">>, v |-> PyFloat(15, -1)]>>

----------------------------------------------------------------------------
(* C8 *)

\* C8: a single clause field:op:value whose op, lower-cased, is none of
\* in, not_in, between, is, is_not, not_like parses to
\* {field: [op, coerce(value)]}, op as written and value everything after
\* the second colon.
C8_SingleOperatorClause ==
    (/\ CalledOnString
     /\ Len(clauses) = 1
     /\ clauses[1].shape = "fov"
     /\ WellFormed(clauses[1])
     /\ Lower(OperatorText(clauses[1])) \notin SpecialOperators) =>
        outcome = Return(PyDict(<<[k |-> FieldName(clauses[1]),
                                   v |-> PyList(<<PyStr(OperatorText(clauses[1])),
                                                  _convert_value(clauses[1].v)>>)]>>))

\* "f:LIKE:a:b" gives {"f": ["LIKE", "a:b"]}
C8_Witness ==
    /\ CalledOnString
    /\ Len(clauses) = 1
    /\ clauses[1].shape = "fov"
    /\ clauses[1].o = <<"L", "I", "K", "E">>
    /\ clauses[1].v = <<"a", ":", "b">>
    /\ ReturnedDict
    /\ outcome.value.d[1].v = PyList(<<PyStr(<<"L", "I", "K", "E">>), PyStr(<<"a", ":", "b">>)>>)

----------------------------------------------------------------------------
(* C9 *)

\* the only clause on its field
AloneOnField(cs, i) == ClausesOn(cs, FieldName(cs[i])) = {i}

\* [coerce(v1), ..., coerce(vk)] for the value v1|...|vk
CoercedTokens(v) ==
    LET tokens == Split(v, "|", -1) IN
    PyList([n \in 1..Len(tokens) |-> _convert_value(tokens[n])])

\* C9: a clause whose operator, lower-cased, is in or not_in gives the
\* predicate ["in", values] or ["not in", values]: the operator in lower
\* case whatever the caller's casing, the values coerced and in order.
C9_InOperatorLowerCase ==
    (CalledOnString /\ ~AnyBadBetween(clauses)) =>
        \A i \in 1..Len(clauses) :
            (/\ clauses[i].shape = "fov"
             /\ Lower(OperatorText(clauses[i])) \in {S_in, S_not_in}
             /\ AloneOnField(clauses, i)) =>
                /\ ReturnedDict
                /\ DictHas(outcome.value.d, FieldName(clauses[i]))
                /\ DictGet(outcome.value.d, FieldName(clauses[i])) =
                      PyList(<<PyStr(ReplaceUnderscore(Lower(OperatorText(clauses[i])))),
                               CoercedTokens(ValueText(clauses[i]))>>)

----------------------------------------------------------------------------
(* C10 *)

\* the value an is / is_not clause tests against
NullCheckValue(v) ==
    IF Lower(v) \in NullWords THEN PyStr(S_not_set)
    ELSE IF Lower(v) \in NotNullWords THEN PyStr(S_set)
    ELSE _convert_value(v)

\* C10: a clause whose operator, lower-cased, is is or is_not gives
\* [operator with "_" replaced by " ", value], the value being "not set" for
\* null/none/empty, "set" for not_null/not_none/not_empty (any casing) and
\* coerce(v) otherwise.
C10_NullChecks ==
    (CalledOnString /\ ~AnyBadBetween(clauses)) =>
        \A i \in 1..Len(clauses) :
            (/\ clauses[i].shape = "fov"
             /\ Lower(OperatorText(clauses[i])) \in {S_is, S_is_not}
             /\ AloneOnField(clauses, i)) =>
                /\ ReturnedDict
                /\ DictHas(outcome.value.d, FieldName(clauses[i]))
                /\ DictGet(outcome.value.d, FieldName(clauses[i])) =
                      PyList(<<PyStr(ReplaceUnderscore(OperatorText(clauses[i]))),
                               NullCheckValue(ValueText(clauses[i]))>>)

\* "f:Is_Not:Not_Empty" gives {"f": ["Is Not", "set"]}
C10_Witness ==
    /\ CalledOnString
    /\ Len(clauses) = 1
    /\ clauses[1].shape = "fov"
    /\ clauses[1].o = <<"I", "s", "_", "N", "o", "t">>
    /\ clauses[1].v = <<"N", "o", "t", "_", "E", "m", "p", "t", "y">>
    /\ ReturnedDict
    /\ outcome.value.d[1].v = PyList(<<PyStr(<<"I", "s", " ", "N", "o", "t">>), PyStr(S_set)>>)

----------------------------------------------------------------------------
(* C11 *)

RECURSIVE PowTen(_)
PowTen(k) == IF k = 0 THEN 1 ELSE 10 * PowTen(k - 1)

\* a call of _convert_value has ended / a call on the string form of its result
Coerced == pc = "done" /\ entry = "_convert_value"
CoercedAgain == pc = "done" /\ entry = "_convert_value(str)"

\* value is what the literal l denotes: a number with a point is the float,
\* a number without is the integer, a word is True, False or its own text
Denotes(l, value) ==
    IF l.kind = "number" THEN
        IF l.point THEN
            IF l.int.t = <<>> /\ l.frac.t = <<>> THEN value = PyStr(l.sign.t \o <<".">>)
            ELSE /\ value.t = "float"
                 /\ value.e + l.frac.d >= 0
                 /\ value.m * PowTen(value.e + l.frac.d) =
                       l.sign.n * (l.int.n * PowTen(l.frac.d) + l.frac.n)
        ELSE IF l.int.t = <<>> THEN value = PyStr(l.sign.t)
        ELSE value = PyInt(l.sign.n * l.int.n)
    ELSE IF l.kind = "exponent" THEN value = PyFloat(l.m, l.e)
    ELSE IF l.means = "true" THEN value = PyBool(TRUE)
    ELSE IF l.means = "false" THEN value = PyBool(FALSE)
    ELSE value = PyStr(l.core)

\* C11: _convert_value is total and applies its rules in a fixed order: the
\* trimmed token with a "." that reads as a float gives the float, else the
\* token that reads as an integer gives the integer, else true/yes (any
\* casing) give True and false/no give False, else the trimmed token is
\* returned as a string; nothing is raised, and "1" and "0" give the
\* integers 1 and 0, never a boolean.
C11_CoercionRuleOrder ==
    Coerced =>
        /\ outcome.kind = "return"
        /\ Denotes(token.lit, outcome.value)

\* " 1 " gives the integer 1
C11_Witness ==
    /\ Coerced
    /\ value_in = PyStr(<<" ", "1", " ">>)
    /\ outcome = Return(PyInt(1))

----------------------------------------------------------------------------
(* C12 *)

\* the literal denotes a float that prints with an exponent, such as 1e-05
\* or 1e+20, whose string form is not the literal's
PrintsWithExponent(l) ==
    IF l.kind = "number" THEN
        /\ l.point
        /\ l.int.n = 0
        /\ l.frac.n # 0
        /\ l.frac.n * PowTen(4) < PowTen(l.frac.d)
    ELSE l.kind = "exponent" /\ ~l.positional

\* C12: for a literal x whose value has a string form of its own kind
\* (integers, floats that print without an exponent, the boolean words,
\* plain strings), _convert_value(str(_convert_value(x))) is
\* _convert_value(x), the value x denotes.
C12_CoercionIdempotent ==
    (CoercedAgain /\ ~PrintsWithExponent(token.lit)) =>
        /\ outcome.kind = "return"
        /\ Denotes(token.lit, outcome.value)

\* "YES" gives True, whose string form "True" gives True again
C12_Witness ==
    /\ CoercedAgain
    /\ token.lit.kind = "word"
    /\ token.lit.core = <<"Y", "E", "S">>
    /\ value_in = PyStr(<<"T", "r", "u", "e">>)
    /\ outcome = Return(PyBool(TRUE))

----------------------------------------------------------------------------
(* C13 *)

\* parse_filter_string, called directly or through format_filters_for_api,
\* has returned the optimized mapping of what it accumulated
ReturnedOptimized == CalledOnString /\ ReturnedDict

\* C13: _optimize_range_filters is idempotent: applied to the mapping it
\* returned for what the parser accumulated (bare values, single predicates,
\* lists of predicates with or without a >= / <= pair), it returns that
\* mapping unchanged.
C13_OptimizeIdempotent ==
    ReturnedOptimized => _optimize_range_filters(outcome.value.d) = outcome.value.d

\* f:>=:1,f:<=:2,f:>:3 gives {"f": [["between", [1, 2]], [">", 3]]}, which
\* a second pass leaves alone
C13_Witness ==
    /\ ReturnedOptimized
    /\ Len(clauses) = 3
    /\ outcome.value.d =
          <<[k |-> <<"f">>,
             v |-> PyList(<<PyList(<<PyStr(S_between), PyList(<<PyInt(1), PyInt(2)>>)>>),
                            PyList(<<PyStr(<<">">>), PyInt(3)>>)>>)]>>
    /\ _optimize_range_filters(outcome.value.d) = outcome.value.d

----------------------------------------------------------------------------
(* C16 *)

\* the field names of the clauses with a colon, each once, in the order in
\* which the caller first wrote them
RECURSIVE FirstOccurrences(_, _)
FirstOccurrences(cs, seen) ==
    IF cs = <<>> THEN seen
    ELSE IF HasColon(cs[1]) /\ \A n \in 1..Len(seen) : seen[n] # FieldName(cs[1])
    THEN FirstOccurrences(Tail(cs), Append(seen, FieldName(cs[1])))
    ELSE FirstOccurrences(Tail(cs), seen)

\* C16: the keys of the returned mapping are pairwise different field names,
\* in the order in which each field first occurs in the input string; a
\* later clause on a field already seen and the range optimization leave
\* every key where it is.
C16_KeysInFirstOccurrenceOrder ==
    (CalledOnString /\ ReturnedDict) =>
        /\ \A m, n \in 1..Len(outcome.value.d) :
              outcome.value.d[m].k = outcome.value.d[n].k => m = n
        /\ DictKeys(outcome.value.d) = FirstOccurrences(clauses, <<>>)

\* f:>=:1,g:1,f:<=:2,f:x : f is seen again twice after g and is merged by
\* the range optimization, and stays the first key
C16_Witness ==
    /\ CalledOnString
    /\ ReturnedDict
    /\ Len(clauses) = 4
    /\ FieldName(clauses[1]) = <<"f">>
    /\ FieldName(clauses[2]) = <<"g">>
    /\ RangePairOn(SubSeq(clauses, 1, 3), <<"f">>, 1, 3)
    /\ HasColon(clauses[4]) /\ FieldName(clauses[4]) = <<"f">>
    /\ DictKeys(outcome.value.d) = <<<<"f">>, <<"g">>>>
    /\ DictGet(outcome.value.d, <<"f">>).l[1] = PyList(<<PyStr(S_between), PyList(<<PyInt(1), PyInt(2)>>)>>)

----------------------------------------------------------------------------
(* C15 *)

\* C15: the parser keeps nothing between or across calls: however the calls
\* of concurrent callers interleave, each call ends as parse_filter_string
\* on its own string ends when called alone, and two calls on the same
\* string end alike.
C15_CallsDoNotInterfere ==
    /\ \A c \in Callers :
          calls[c].at = "done" => calls[c].outcome = parse_filter_string(calls[c].filter_str)
    /\ \A c, d \in Callers :
          (/\ calls[c].at = "done"
           /\ calls[d].at = "done"
           /\ calls[c].filter_str = calls[d].filter_str) =>
              calls[c].outcome = calls[d].outcome

\* caller 1 has merged f:>=:1,f:<=:2 while caller 2 is in the middle of a
\* call on another string with an entry on f accumulated
C15_Witness ==
    /\ calls[1].at = "done"
    /\ calls[1].outcome =
          Return(PyDict(<<[k |-> <<"f">>,
                          v |-> PyList(<<PyStr(S_between), PyList(<<PyInt(1), PyInt(2)>>)>>)]>>))
    /\ calls[2].at = "loop"
    /\ calls[2].part = 2
    /\ calls[2].filter_str # calls[1].filter_str
    /\ DictHas(locals[2], <<"f">>)

----------------------------------------------------------------------------
(* C18 *)

\* the variable is set to a non-empty value
Present(x) == x # Unset /\ x # PyStr(<<>>)

\* C18: validate_api_credentials reports valid exactly when FRAPPE_API_KEY
\* and FRAPPE_API_SECRET are both set to non-empty values; its result always
\* has the keys valid, message and details, and the two availability flags
\* of details say which of the two variables is set to a non-empty value;
\* get_api_credentials raises ValueError exactly when the validation says
\* not valid.
C18_CredentialValidation ==
    /\ auth.fn = "validate_api_credentials" =>
          /\ auth.outcome.kind = "return"
          /\ DOMAIN auth.outcome.value = {"valid", "message", "details"}
          /\ auth.outcome.value.valid =
                (Present(environ.FRAPPE_API_KEY) /\ Present(environ.FRAPPE_API_SECRET))
          /\ auth.outcome.value.details.api_key_available = Present(environ.FRAPPE_API_KEY)
          /\ auth.outcome.value.details.api_secret_available =
                Present(environ.FRAPPE_API_SECRET)
    /\ auth.fn = "get_api_credentials" =>
          /\ (auth.outcome.kind = "raise") = ~validate_api_credentials(environ).valid
          /\ auth.outcome.kind = "raise" => auth.outcome.exc = "ValueError"
          /\ auth.outcome.kind = "return" =>
                /\ PyStr(auth.outcome.value.api_key) = environ.FRAPPE_API_KEY
                /\ PyStr(auth.outcome.value.api_secret) = environ.FRAPPE_API_SECRET

\* the key is set but empty and the secret is set: the validation says the
\* key is missing
C18_Witness ==
    /\ environ.FRAPPE_API_KEY = PyStr(<<>>)
    /\ environ.FRAPPE_API_SECRET = PyStr(<<"v">>)
    /\ auth.fn = "validate_api_credentials"
    /\ ~auth.outcome.value.valid
    /\ auth.outcome.value.message = M_key_missing
    /\ ~auth.outcome.value.details.api_key_available
    /\ auth.outcome.value.details.api_secret_available

----------------------------------------------------------------------------
(* C17 *)

\* C17: a server started with the transport "sse", from the command line or
\* by start_server, does not end on the unsupported-transport path, and
\* unless server.run() fails it serves on the SSE transport.
C17_SseTransportServes ==
    (process.entry # "none" /\ process.transport = "sse") =>
        /\ process.stderr # "Unsupported transport"
        /\ process.stderr # "Fatal error" => process.serving = "sse"

----------------------------------------------------------------------------
(* C14 *)

\* sub occurs in s
Occurs(sub, s) ==
    \E i \in 0..(Len(s) - Len(sub)) : SubSeq(s, i + 1, i + Len(sub)) = sub

\* the message the parser raises for the clauses: the prefix and the value
\* text of the first malformed between clause
BadBetweenMessage(cs) == BetweenErrorPrefix \o ValueText(cs[FirstBadBetween(cs)])

\* C14: a filter tool called with a malformed between clause returns an
\* error text that contains the parser's message with the bad value text,
\* whatever the environment holds.
C14_ToolSurfacesParserMessage ==
    (tool # NoToolCall /\ AnyBadBetween(tool.clauses)) =>
        /\ tool.result.t = "error"
        /\ Occurs(BadBetweenMessage(tool.clauses), tool.result.text)

----------------------------------------------------------------------------
(* C19 *)

\* the docstatus a lifecycle tool requires of the document it acts on
RequiredDocstatus(tool_name) ==
    CASE tool_name = "submit_document" -> PyInt(0)
      [] tool_name = "cancel_document" -> PyInt(1)
      [] tool_name = "amend_document" -> PyInt(2)

\* the action of the state-changing request of a lifecycle tool
RequiredAction(tool_name) ==
    CASE tool_name = "submit_document" -> "Submit"
      [] tool_name = "cancel_document" -> "Cancel"
      [] tool_name = "amend_document" -> "create"

\* the state-changing requests the last lifecycle call sent
PostsSent == {i \in 1..Len(lifecycle.sent) : lifecycle.sent[i].method = "POST"}

\* the last lifecycle call could fetch the document, and fetched it in the
\* state its tool requires
FetchedInRequiredState ==
    /\ Present(environ.FRAPPE_BASE_URL)
    /\ Present(environ.FRAPPE_API_KEY)
    /\ Present(environ.FRAPPE_API_SECRET)
    /\ lifecycle.net # "fetch down"
    /\ lifecycle.found
    /\ lifecycle.doc.docstatus = RequiredDocstatus(lifecycle.tool)

\* C19: a lifecycle tool sends its state-changing request (the Submit, the
\* Cancel, the creation of the amended document) only when the docstatus it
\* fetched is the one it requires (0, 1, 2); for any other docstatus, a
\* missing docstatus or a failed fetch it returns a message and sends no
\* state-changing request.
C19_PostOnlyFromRequiredState ==
    lifecycle # NoLifecycleCall =>
        /\ lifecycle.result # "none"
        /\ PostsSent # {} => FetchedInRequiredState
        /\ \A i \in PostsSent :
              /\ i = Len(lifecycle.sent)
              /\ lifecycle.sent[i].action = RequiredAction(lifecycle.tool)
        /\ ~FetchedInRequiredState =>
              /\ PostsSent = {}
              /\ lifecycle.result \notin {"done", "failed", "proceed"}

\* cancel_document on a document that came back with docstatus 3 returned
\* the unexpected-status message after its one GET
C19_Witness ==
    /\ lifecycle.tool = "cancel_document"
    /\ lifecycle.found
    /\ lifecycle.doc.docstatus = PyInt(3)
    /\ lifecycle.result = "unexpected status"
    /\ lifecycle.sent = <<Get(lifecycle.name)>>

----------------------------------------------------------------------------
(* C20 *)

\* the original, never-amended document that name descends from
RECURSIVE OriginOf(_, _)
OriginOf(docs, name) ==
    IF docs[name].amended_from = PyNone THEN name
    ELSE OriginOf(docs, docs[name].amended_from.s)

\* the name the last amend_document created its document under
CreatedName == lifecycle.sent[Len(lifecycle.sent)].name

\* C20: amend_document creates the amended document under a name B-k, k >= 1,
\* where B is the whole name of the original, never-amended document
\* (DOC-001 gives DOC-001-1, DOC-001-1 gives DOC-001-2); the new document
\* has amended_from equal to the amended document and docstatus 0.
C20_AmendedNameFromOriginal ==
    (lifecycle.tool = "amend_document" /\ lifecycle.result = "done") =>
        /\ CreatedName \in DOMAIN documents
        /\ \E k \in 1..(MaxDocuments + 1) :
              CreatedName = OriginOf(documents, lifecycle.name) \o <<"-">> \o NatText(k)
        /\ documents[CreatedName].amended_from = PyStr(lifecycle.name)
        /\ documents[CreatedName].docstatus = PyInt(0)

----------------------------------------------------------------------------
(* C21 *)

\* the positions of the clauses f:op:v on field f with operator op
OperatorClausesOn(cs, f, op) ==
    {i \in ClausesOn(cs, f) : cs[i].shape = "fov" /\ OperatorText(cs[i]) = op}

\* the elements of a list value
ElementsOf(v) == IF IsList(v) THEN {v.l[n] : n \in 1..Len(v.l)} ELSE {}

\* what a field's value holds: the value, its elements and their elements
HeldBy(v) == {v} \cup ElementsOf(v) \cup UNION {ElementsOf(x) : x \in ElementsOf(v)}

\* p is the predicate [op, value] for some value
IsPredicateOf(p, op) == IsList(p) /\ Len(p.l) = 2 /\ p.l[1] = PyStr(op)

\* C21: whenever a field has at least one >= clause and at least one <=
\* clause, whatever other clauses name the field and wherever they stand,
\* the field's value holds a between predicate built from a >= bound and a
\* <= bound, and holds no >= predicate and no <= predicate.
C21_RangeAlwaysRewritten ==
    (CalledOnString /\ ~AnyBadBetween(clauses)) =>
        \A i \in 1..Len(clauses) :
            (/\ HasColon(clauses[i])
             /\ OperatorClausesOn(clauses, FieldName(clauses[i]), S_gte) # {}
             /\ OperatorClausesOn(clauses, FieldName(clauses[i]), S_lte) # {}) =>
                /\ ReturnedDict
                /\ DictHas(outcome.value.d, FieldName(clauses[i]))
                /\ \E a \in OperatorClausesOn(clauses, FieldName(clauses[i]), S_gte),
                      b \in OperatorClausesOn(clauses, FieldName(clauses[i]), S_lte) :
                      PyList(<<PyStr(S_between),
                               PyList(<<_convert_value(ValueText(clauses[a])),
                                        _convert_value(ValueText(clauses[b]))>>)>>)
                          \in HeldBy(DictGet(outcome.value.d, FieldName(clauses[i])))
                /\ \A p \in HeldBy(DictGet(outcome.value.d, FieldName(clauses[i]))) :
                      ~IsPredicateOf(p, S_gte) /\ ~IsPredicateOf(p, S_lte)

----------------------------------------------------------------------------
(* C24 *)

\* the |-separated tokens of the value of clause c, each stripped
RangeTokens(c) == MapStrip(Split(ValueText(c), "|", -1))

\* C24: a single clause field:OP:lo|hi whose operator is between in any
\* casing and whose value has exactly two tokens gives the predicate
\* ["between", [coerce(lo), coerce(hi)]], the operator being the lower-case
\* "between" and the bounds in the order written.
C24_BetweenLowerCase ==
    (/\ CalledOnString
     /\ Len(clauses) = 1
     /\ clauses[1].shape = "fov"
     /\ FieldName(clauses[1]) # <<>>
     /\ Lower(OperatorText(clauses[1])) = S_between
     /\ Len(RangeTokens(clauses[1])) = 2) =>
        outcome = Return(PyDict(<<[k |-> FieldName(clauses[1]),
                                   v |-> PyList(<<PyStr(S_between),
                                                  PyList(<<_convert_value(RangeTokens(clauses[1])[1]),
                                                           _convert_value(RangeTokens(clauses[1])[2])>>)>>)]>>))

----------------------------------------------------------------------------
(* C25 *)

S_like == <<"l", "i", "k", "e">>

\* C25: a single clause field:not_like:v, the operator in any casing, gives
\* ["not like", v] with v the value text as a string, never coerced; the
\* same value under like is coerced.
C25_NotLikeKeepsRawValue ==
    (/\ CalledOnString
     /\ Len(clauses) = 1
     /\ clauses[1].shape = "fov"
     /\ FieldName(clauses[1]) # <<>>) =>
        /\ Lower(OperatorText(clauses[1])) = S_not_like =>
              outcome = Return(PyDict(<<[k |-> FieldName(clauses[1]),
                                         v |-> PyList(<<PyStr(S_not_like_out),
                                                        PyStr(ValueText(clauses[1]))>>)]>>))
        /\ OperatorText(clauses[1]) = S_like =>
              outcome = Return(PyDict(<<[k |-> FieldName(clauses[1]),
                                         v |-> PyList(<<PyStr(S_like),
                                                        _convert_value(ValueText(clauses[1]))>>)]>>))

\* f:NOT_LIKE:1.5 keeps the text "1.5"
C25_Witness ==
    /\ CalledOnString
    /\ Len(clauses) = 1
    /\ clauses[1].shape = "fov"
    /\ OperatorText(clauses[1]) = <<"N", "O", "T", "_", "L", "I", "K", "E">>
    /\ ValueText(clauses[1]) = <<"1", ".", "5">>
    /\ outcome.kind = "return"
    /\ DictGet(outcome.value.d, FieldName(clauses[1])) =
          PyList(<<PyStr(S_not_like_out), PyStr(<<"1", ".", "5">>)>>)

----------------------------------------------------------------------------
(* C22 *)

\* the positions of the predicates of one kind in the described list
PartsOf(kind) == {n \in 1..Len(optimizing.parts) : optimizing.parts[n].kind = kind}

\* the other predicates of the described list, in order
OtherParts ==
    LET IsOther(q) == q.kind = "other"
        others == SelectSeq(optimizing.parts, IsOther)
    IN [n \in 1..Len(others) |-> others[n].cond]

\* the value of field f in the optimized mapping
OptimizedValue == DictGet(optimizing.result, <<"f">>)

\* a between predicate over the value of a >= and the value of a <= of the list
IsBetweenOfBounds(p) ==
    \E a \in PartsOf("gte"), b \in PartsOf("lte") :
        p = PyList(<<PyStr(S_between),
                     PyList(<<optimizing.parts[a].cond.l[2], optimizing.parts[b].cond.l[2]>>)>>)

\* C22: for a field whose list of two or more predicates has a >= and a <=
\* predicate and others, the result is the between predicate followed by the
\* others, unchanged and in order (the between alone when there are no
\* others); without the pair the list is returned untouched; a single
\* predicate or bare value passes through unchanged; the mapping keeps its
\* fields and their order.
C22_OptimizeRanges ==
    optimizing.at = "done" =>
        /\ DictKeys(optimizing.result) = DictKeys(optimizing.arg)
        /\ DictGet(optimizing.result, <<"g">>) = PyInt(1)
        /\ (optimizing.listed /\ PartsOf("gte") # {} /\ PartsOf("lte") # {}
                /\ OtherParts # <<>>) =>
              /\ IsList(OptimizedValue)
              /\ Len(OptimizedValue.l) = 1 + Len(OtherParts)
              /\ IsBetweenOfBounds(OptimizedValue.l[1])
              /\ Tail(OptimizedValue.l) = OtherParts
        /\ (optimizing.listed /\ PartsOf("gte") # {} /\ PartsOf("lte") # {}
                /\ OtherParts = <<>>) =>
              IsBetweenOfBounds(OptimizedValue)
        /\ (optimizing.listed /\ (PartsOf("gte") = {} \/ PartsOf("lte") = {})) =>
              OptimizedValue = Listed(optimizing.parts)
        /\ ~optimizing.listed => OptimizedValue = optimizing.parts[1].cond

\* [">", 3], [">=", 1], "x", ["<=", 2] became [between [1, 2], [">", 3], "x"]
C22_Witness ==
    /\ optimizing.at = "done"
    /\ optimizing.listed
    /\ Len(optimizing.parts) = 4
    /\ PartsOf("gte") = {2}
    /\ PartsOf("lte") = {4}
    /\ OptimizedValue =
          PyList(<<PyList(<<PyStr(S_between), PyList(<<PyInt(1), PyInt(2)>>)>>),
                   PyList(<<PyStr(<<">">>), PyInt(3)>>),
                   PyStr(<<"x">>)>>)

----------------------------------------------------------------------------
(* C23 *)

\* the last position of a predicate of the kind in the described list
LastPart(kind) == CHOOSE n \in PartsOf(kind) : \A m \in PartsOf(kind) : m <= n

\* C23: when a field's list holds several >= or several <= predicates and
\* both kinds are present, the between is built from the last >= and the
\* last <= of the list, and no >= or <= predicate is left in the result.
C23_LastBoundWins ==
    (/\ optimizing.at = "done"
     /\ optimizing.listed
     /\ PartsOf("gte") # {}
     /\ PartsOf("lte") # {}
     /\ Cardinality(PartsOf("gte")) + Cardinality(PartsOf("lte")) > 2) =>
        /\ PyList(<<PyStr(S_between),
                    PyList(<<optimizing.parts[LastPart("gte")].cond.l[2],
                             optimizing.parts[LastPart("lte")].cond.l[2]>>)>>)
              \in {OptimizedValue} \cup ElementsOf(OptimizedValue)
        /\ \A p \in HeldBy(OptimizedValue) :
              ~IsPredicateOf(p, S_gte) /\ ~IsPredicateOf(p, S_lte)

\* [">=", 1], ["<=", 7], [">=", 5], ["<=", 2] became the between of 5 and 2
C23_Witness ==
    /\ optimizing.at = "done"
    /\ optimizing.listed
    /\ PartsOf("gte") = {1, 3}
    /\ PartsOf("lte") = {2, 4}
    /\ optimizing.parts[1].cond.l[2] = PyInt(1)
    /\ optimizing.parts[3].cond.l[2] = PyInt(5)
    /\ optimizing.parts[2].cond.l[2] = PyInt(7)
    /\ optimizing.parts[4].cond.l[2] = PyInt(2)
    /\ OptimizedValue = PyList(<<PyStr(S_between), PyList(<<PyInt(5), PyInt(2)>>)>>)

----------------------------------------------------------------------------
(* C26 *)

\* the DELETE requests the last call of delete_document sent
DeletesSent == {i \in 1..Len(deletion.sent) : deletion.sent[i].method = "DELETE"}

\* the base URL and the credentials are there: the client can send requests
ClientUsable ==
    /\ Present(environ.FRAPPE_BASE_URL)
    /\ Present(environ.FRAPPE_API_KEY)
    /\ Present(environ.FRAPPE_API_SECRET)

\* the status fetch of the last call of delete_document gave the document
StatusFetched == ClientUsable /\ deletion.net = "up" /\ deletion.found

\* C26 as claimed: no DELETE when the status fetch succeeded and gave
\* docstatus 1 or no docstatus; exactly one DELETE in every other case.
C26_DeleteUnlessSubmitted ==
    deletion # NoDeleteCall =>
        IF StatusFetched /\ deletion.doc.docstatus \in {PyInt(1), PyNone}
        THEN DeletesSent = {}
        ELSE Cardinality(DeletesSent) = 1

\* C26: when the base URL or a credential is missing delete_document sends
\* no request at all; otherwise it sends no DELETE when the status fetch
\* succeeded and gave docstatus 1 or no docstatus, and in every other case
\* (another docstatus, or the fetch raised) exactly one DELETE, as its last
\* request.
C26_DeleteWhenClientUsable ==
    deletion # NoDeleteCall =>
        /\ deletion.result # "none"
        /\ ~ClientUsable => deletion.sent = <<>>
        /\ (StatusFetched /\ deletion.doc.docstatus \in {PyInt(1), PyNone}) => DeletesSent = {}
        /\ (ClientUsable /\ ~(StatusFetched /\ deletion.doc.docstatus \in {PyInt(1), PyNone})) =>
              /\ DeletesSent = {Len(deletion.sent)}
              /\ deletion.sent[Len(deletion.sent)] = Delete(deletion.name)

\* the fetch of a submitted document raised, and the DELETE was sent
C26_Witness ==
    /\ deletion # NoDeleteCall
    /\ ClientUsable
    /\ deletion.found
    /\ deletion.doc.docstatus = PyInt(1)
    /\ deletion.net = "fetch down"
    /\ deletion.sent = <<Get(deletion.name), Delete(deletion.name)>>

----------------------------------------------------------------------------
(* C27 *)

\* C27: a tool call whose filter argument has a malformed between clause
\* sends no request at all: the filter string is parsed, and the parse fails,
\* before the tool's request is made.
C27_ParseBeforeRequest ==
    (tool # NoToolCall /\ AnyBadBetween(tool.clauses)) =>
        /\ tool.sent = <<>>
        /\ tool.result.t = "error"

\* a tool was called with a malformed between clause where its request could
\* have been sent: base URL and credentials are there
C27_Witness ==
    /\ tool # NoToolCall
    /\ AnyBadBetween(tool.clauses)
    /\ Present(environ.FRAPPE_BASE_URL)
    /\ Present(environ.FRAPPE_API_KEY)
    /\ Present(environ.FRAPPE_API_SECRET)
    /\ _client_instance # PyNone
    /\ tool.sent = <<>>

----------------------------------------------------------------------------
(* C28 *)

\* the filter argument of the last tool call is a non-empty string none of
\* whose clauses yields a predicate
NoPredicateArgument ==
    /\ tool # NoToolCall
    /\ tool.filters # PyNone
    /\ tool.filters.s # <<>>
    /\ \A i \in 1..Len(tool.clauses) : ~HasColon(tool.clauses[i])

\* C28: list_documents and count_documents given a non-empty filter string
\* that yields no predicate send their request without a filters parameter,
\* as for no filter argument, and count_documents reports the count as
\* "documents total", not as "matching filters".
C28_EmptyMappingSendsNoFilters ==
    (NoPredicateArgument /\ tool.name \in {"list_documents", "count_documents"}) =>
        /\ \A i \in 1..Len(tool.sent) : tool.sent[i] = [method |-> "GET", filters |-> PyNone]
        /\ tool.result.t = "data" => Len(tool.sent) = 1
        /\ (tool.name = "count_documents" /\ tool.result.t = "data") =>
              /\ tool.result.text \in {M_documents_total, M_no_data_returned}
              /\ ~Occurs(M_matching_filters, tool.result.text)

\* count_documents was given "zz" and answers with the total
C28_Witness ==
    /\ NoPredicateArgument
    /\ tool.name = "count_documents"
    /\ tool.sent = <<[method |-> "GET", filters |-> PyNone]>>
    /\ tool.result = [t |-> "data", text |-> M_documents_total]

----------------------------------------------------------------------------
(* C29 *)

\* C29 as claimed: in every interleaving of requests and close() calls on
\* the shared client, no request is made on an httpx client on which
\* aclose() has already been called.
C29_NoRequestOnClosedClient ==
    \A t \in Tasks : coroutines[t].op = "request" => ~coroutines[t].aclosed

----------------------------------------------------------------------------
(* C30 *)

\* the backend answered the lookup with the document
AnsweredData(resp) == resp.status = 200 /\ resp.data

\* the backend answered the lookup with 404 or a response without data
AnsweredFree(resp) == resp.status = 404 \/ (resp.status = 200 /\ ~resp.data)

\* the names looked up so far are base-k for k counting up from the start
LookedUpInOrder ==
    LET gets == SelectSeq(amending.sent, LAMBDA r : r.method = "GET") IN
    /\ Len(gets) = Len(amending.answers)
    /\ \A i \in 1..Len(gets) :
          gets[i].name = amending.base_name \o <<"-">> \o NatText(amending.start + i - 1)

\* the search stops at the first lookup answered 404 or without data, and
\* that name is posted; another error ends the tool without a create request
StopsAtFirstFree ==
    LET n == Len(amending.answers) IN
    /\ LookedUpInOrder
    /\ \A i \in 1..(n - 1) : AnsweredData(amending.answers[i])
    /\ amending.at = "searching" =>
          /\ \A i \in 1..n : AnsweredData(amending.answers[i])
          /\ \A i \in 1..Len(amending.sent) : amending.sent[i].method = "GET"
    /\ amending.at \in {"creating", "ended"} =>
          /\ n >= 1
          /\ AnsweredFree(amending.answers[n])
          /\ amending.sent[Len(amending.sent)] =
                [method |-> "POST", action |-> "create",
                 name |-> amending.sent[Len(amending.sent) - 1].name]
          /\ \A i \in 1..(Len(amending.sent) - 1) : amending.sent[i].method = "GET"
    /\ amending.at = "aborted" =>
          /\ n >= 1
          /\ ~AnsweredData(amending.answers[n]) /\ ~AnsweredFree(amending.answers[n])
          /\ \A i \in 1..Len(amending.sent) : amending.sent[i].method = "GET"

\* C30: with finitely many names base-k at the backend the search of
\* amend_document for an amended name ends; it stops at the first k from
\* its start counter whose lookup answers 404 or a response without data and
\* posts the create request under that name; a lookup that fails with
\* another API error ends the amendment without a create request.
C30_SearchTerminates ==
    /\ []StopsAtFirstFree
    /\ (amending.at = "searching") ~> (amending.at \in {"creating", "aborted"})

\* the search passed over two existing names and posted under the third
C30_Witness ==
    /\ amending.at = "ended"
    /\ Len(amending.answers) = 3
    /\ AnsweredFree(amending.answers[3])
    /\ amending.amended_counter = amending.start + 2

====
